---- MODULE Spec2Model ----
(***************************************************************************)
(* Forecasting & Aggregation Engine of the SANKALP backend:                *)
(*   Tools/Data_quality_featureEngineer.py  dq_and_fe                      *)
(*   Tools/Model_planning_forecasting.py  plan_and_forecast                *)
(*   Tools/Aggregator_Drivers.py          aggregate_and_drivers            *)
(*   main.py                              in-memory artifact store, /run   *)
(*                                                                         *)
(* Data representation.                                                    *)
(*  - A pandas DataFrame is [cols |-> set of column names, rows |-> Seq].  *)
(*    A row is a record; a field whose column is not in cols is unused.    *)
(*  - A string cell is a string; the null cell (None / NaN) is NULL.       *)
(*  - A numeric cell is Num(n), NaN (null) or Str (a non-numeric string);   *)
(*    Frac(n) is the non-integral number n/Scale.                          *)
(*  - A date cell is <<m>> with m the absolute month index                 *)
(*    (year * 12 + month - 1), or <<>> for NaT (missing / unparseable).    *)
(*    Dates are kept at month resolution: the forecast engine only buckets *)
(*    them by calendar month.                                              *)
(*  - A series_id cell is the sequence of its "|"-separated parts,         *)
(*    <<scheme, geo>> for "scheme|geo", <<"--">> for the sentinel; <<>> is *)
(*    the null cell.                                                       *)
(*  - Floating point numbers are modelled as exact rationals, written as   *)
(*    integers in units of 1/Scale (Scale = 9 * 1000: the 3-month mean of  *)
(*    line 130 and the 3-decimal rounding of lines 154-155).               *)
(***************************************************************************)
EXTENDS Integers, Sequences, FiniteSets, TLC

VARIABLES
    feats,      \* feature table handed to the Forecast Engine
    timeframe,  \* params.timeframe of the run
    store,      \* kind of artifact store the stages find ("absent", "mem", "raising")
    artStore,   \* main.py _ART_STORE: sequence of [key, obj], in insertion order
    pc,         \* position of the run (of each request, where several are in flight)
    errors,     \* main.py run_endpoint errors list
    pfRes,      \* what plan_and_forecast returned (or that it raised)
    agRes,      \* what aggregate_and_drivers returned (or that it raised)
    fcIn,       \* forecast rows given to a stand-alone Aggregator call
    fcPerm,     \* the same rows, in the order of the latest re-run
    agFirst,    \* result of the Aggregator on fcIn in its original order
    apps,       \* raw applications table staged for the Feature Builder
    fbRes,      \* what dq_and_fe returned (or that it raised)
    runs        \* the /run requests in flight: per request its input and results

vars == <<feats, timeframe, store, artStore, pc, errors, pfRes, agRes, fcIn, fcPerm, agFirst,
          apps, fbRes, runs>>

\* ------------------------------------------------------------------------
\* Bounds of the model
\* ------------------------------------------------------------------------
MaxRows == 2      \* forecast rows in a stand-alone Aggregator call
MaxFeat == 2      \* rows of the feature table
MaxFx == 2        \* feature rows in a stand-alone Aggregator / Analytics call
MaxApps == 3      \* rows of the raw applications table
MaxChart == 3     \* feature rows in a stand-alone call for the chart views
MaxSheet == 1     \* rows of the applications tab a /run request ingests

\* ------------------------------------------------------------------------
\* Cells
\* ------------------------------------------------------------------------
NULL == "<null>"
DASH == "--"                      \* the em-dash sentinel of the source
Scale == 9 * 1000

Num(n) == [t |-> "num", n |-> n]
NaN == [t |-> "nan", n |-> 0]
Str == [t |-> "str", n |-> 0]
Frac(n) == [t |-> "frac", n |-> n]

NaT == <<>>
NoSeries == <<>>

EmptyDF == [cols |-> {}, rows |-> <<>>]
DFEmpty(df) == df.cols = {} \/ df.rows = <<>>

ToNumeric(c) == IF c.t = "num" THEN c.n ELSE 0

\* pd.to_numeric(..., errors="coerce").fillna(0.0) of a count, in units of 1/Scale
Units(c) == IF c.t = "num" THEN c.n * Scale ELSE IF c.t = "frac" THEN c.n ELSE 0

AsTypeStr(s) == IF s = NULL THEN "None" ELSE s

\* Python's ordering of the strings that occur as labels (the age buckets are
\* written with an ASCII hyphen); sort_values puts the null cell last.
StrOrder ==
    << "18-25", "26-35", "36-50", "50+", "<18",
       "A", "B", "CA", "F", "M", "NY", "None",
       "P1", "P10", "P11", "P12", "P2", "P3", "P4", "P5", "P6", "P7", "P8", "P9",
       "S1", "S2", "Unknown", "high", "low", DASH, NULL >>
StrRank(s) == CHOOSE i \in 1..Len(StrOrder) : StrOrder[i] = s
\* position of the key <<a, b>> in the lexicographic order of sort_values / groupby
KeyRank(k) == StrRank(k[1]) * (Len(StrOrder) + 1) + StrRank(k[2])

RECURSIVE SortRanked(_)
SortRanked(R) ==
    IF R = {} THEN <<>>
    ELSE LET m == CHOOSE x \in R : \A y \in R : x[1] <= y[1]
         IN  <<m[2]>> \o SortRanked(R \ {m})

\* the keys of S in ascending order (groupby sorts its group keys)
SortKeys(S) == SortRanked({<<KeyRank(k), k>> : k \in S})
SortStrs(S) == SortRanked({<<StrRank(x), x>> : x \in S})
SortInts(S) == SortRanked({<<x, x>> : x \in S})

RECURSIVE SumSeq(_)
SumSeq(s) == IF s = <<>> THEN 0 ELSE Head(s) + SumSeq(Tail(s))

Abs(n) == IF n < 0 THEN -n ELSE n

PeriodLabel(i) == "P" \o ToString(i)

\* ------------------------------------------------------------------------
\* Artifact store (main.py lines 26-34, as found by the stages' imports)
\* ------------------------------------------------------------------------
NoKey == <<>>                                   \* Python None
SymbolicKey(name) == <<"table", name>>          \* "table:<name>"
ReusedKey(arts, name) == <<"mem", name, 1>>
FreshKey(arts, name) == <<"mem", name, Len(arts) + 1>>   \* uuid4: never seen before

\* store = "absent": `from waveflow.artifacts import ...` fails, load_artifact = None
\* store = "mem":    the shim of main.py, _ART_STORE.get(key) (None when unknown)
\* store = "raising": a store whose calls raise
LoadArtifact(st, arts, key) ==
    IF st = "absent" \/ key = NoKey THEN [kind |-> "skip", df |-> EmptyDF]
    ELSE IF st = "raising" THEN [kind |-> "raise", df |-> EmptyDF]
    ELSE IF \E i \in 1..Len(arts) : arts[i].key = key
         THEN [kind |-> "df", df |-> arts[CHOOSE i \in 1..Len(arts) : arts[i].key = key].obj]
         ELSE [kind |-> "none", df |-> EmptyDF]

\* id returned by a stage's guarded save_artifact(obj, name) call
SaveKey(st, arts, name) ==
    IF st = "mem" THEN FreshKey(arts, name) ELSE SymbolicKey(name)
SaveArtifact(st, arts, name, obj) ==
    IF st = "mem" THEN Append(arts, [key |-> FreshKey(arts, name), obj |-> obj]) ELSE arts

\* ------------------------------------------------------------------------
\* Forecast Engine: Tools/Model_planning_forecasting.py
\* ------------------------------------------------------------------------
ForecastCols ==
    {"series_id", "scheme_id", "geo_code", "period", "forecast_month",
     "yhat", "yhat_low", "yhat_high", "model", "history_points"}

Lower(tf) == IF tf = "NEXT_YEAR" THEN "next_year" ELSE tf

HorizonQuarterOnly(timeframe_) ==
    LET tf == Lower(IF timeframe_ = NULL THEN "" ELSE timeframe_)
    IN  IF tf = "next_year" THEN 12 ELSE 3

Horizon(timeframe_) ==
    LET tf == Lower(IF timeframe_ = NULL THEN "" ELSE timeframe_)
    IN  IF tf \in {"", "next_quarter"} THEN 3
        ELSE IF tf = "next_6_months" THEN 6
        ELSE IF tf = "next_year" THEN 12
        ELSE 3

\* round(x, 3) of the non-negative rational num/den (in units of 1/Scale):
\* the nearest multiple of Scale/1000, ties to even.
Round3(num, den) ==
    LET step == Scale \div 1000
        n2 == 2 * num + step * den
        d2 == 2 * step * den
        k  == n2 \div d2
    IN  IF n2 % d2 = 0 /\ k % 2 = 1 THEN (k - 1) * step ELSE k * step

Max0(x) == IF x < 0 THEN 0 ELSE x

month_key_zero_based(m) == <<m \div 12, m % 12>>

month_key(m) == <<m \div 12, (m % 12) + 1>>      \* (year, month) of "YYYY-MM"

ZeroRowsLastValue(h) ==
    [i \in 1..h |->
        [series_id |-> <<DASH>>, scheme_id |-> NULL, geo_code |-> DASH,
         period |-> PeriodLabel(i), forecast_month |-> <<>>,
         yhat |-> Num(0), yhat_low |-> Num(0), yhat_high |-> Num(0),
         model |-> "LastValue", history_points |-> 0]]

ZeroRows(h) ==
    [i \in 1..h |->
        [series_id |-> <<DASH>>, scheme_id |-> NULL, geo_code |-> DASH,
         period |-> PeriodLabel(i), forecast_month |-> <<>>,
         yhat |-> Num(0), yhat_low |-> Num(0), yhat_high |-> Num(0),
         model |-> "ZeroForecast", history_points |-> 0]]

PfRaised(e) ==
    [raised |-> TRUE, exc |-> e, model_plan |-> <<>>, forecasts_raw |-> NoKey,
     forecasts_raw_data |-> EmptyDF]

\* rows of the feature table that survive dropna(subset=["date"]), with
\* scheme_id / geo_code cast to str and apps_count coerced (lines 72-82)
NormalizedFeats(f) ==
    SelectSeq(
        [i \in 1..Len(f.rows) |->
            [date |-> f.rows[i].date,
             scheme_id |-> AsTypeStr(f.rows[i].scheme_id),
             geo_code |-> AsTypeStr(f.rows[i].geo_code),
             apps_count |-> Units(f.rows[i].apps_count)]],
        LAMBDA r : r.date # NaT)

SeriesKeys(rows) == {<<rows[i].scheme_id, rows[i].geo_code>> : i \in 1..Len(rows)}

\* g_m: the monthly resample of one series (line 96)
MonthsOf(rows, key) ==
    {rows[i].date[1] : i \in {j \in 1..Len(rows) : <<rows[j].scheme_id, rows[j].geo_code>> = key}}
MinOf(S) == CHOOSE x \in S : \A y \in S : x <= y
MaxOf(S) == CHOOSE x \in S : \A y \in S : y <= x
MonthlySum(rows, key, m) ==
    SumSeq([i \in 1..Len(rows) |->
        IF <<rows[i].scheme_id, rows[i].geo_code>> = key /\ rows[i].date = <<m>>
        THEN rows[i].apps_count ELSE 0])
ResampleObservedMonths(rows, key) ==
    LET ms == MonthsOf(rows, key)
        obs == SortInts(ms)
    IN  IF ms = {} THEN [first |-> 0, last |-> -1, y |-> <<>>]
        ELSE [first |-> MinOf(ms), last |-> MaxOf(ms),
              y |-> [k \in 1..Len(obs) |-> MonthlySum(rows, key, obs[k])]]

Resample(rows, key) ==
    LET ms == MonthsOf(rows, key)
    IN  IF ms = {} THEN [first |-> 0, last |-> -1, y |-> <<>>]
        ELSE [first |-> MinOf(ms), last |-> MaxOf(ms),
              y |-> [k \in 1..(MaxOf(ms) - MinOf(ms) + 1) |->
                        MonthlySum(rows, key, MinOf(ms) + k - 1)]]

ModelNameOffByOne(hp) ==
    IF hp > 18 THEN "SeasonalNaive"
    ELSE IF hp >= 3 THEN "MovingAverage-3"
    ELSE "LastValue"

ModelName(hp) ==
    IF hp >= 18 THEN "SeasonalNaive"
    ELSE IF hp >= 3 THEN "MovingAverage-3"
    ELSE "LastValue"

ma3_forecast_all_history(base_vals) ==
    LET n == Len(base_vals)
    IN  IF n >= 3 THEN SumSeq(base_vals) \div n
        ELSE IF n > 0 THEN base_vals[n] ELSE 0

ma3_forecast(base_vals) ==
    LET n == Len(base_vals)
    IN  IF n >= 3 THEN (base_vals[n - 2] + base_vals[n - 1] + base_vals[n]) \div 3
        ELSE IF n > 0 THEN base_vals[n] ELSE 0

first_forecast(base_vals) ==
    IF Len(base_vals) > 0 THEN base_vals[1] ELSE 0

last_forecast(base_vals) ==
    IF Len(base_vals) > 0 THEN base_vals[Len(base_vals)] ELSE 0

seasonal_forecast_same_year(g_m, last_month, step_idx) ==
    LET target == last_month + (step_idx + 1)
        ly == target - 11
    IN  IF ly >= g_m.first /\ ly <= g_m.last
        THEN g_m.y[ly - g_m.first + 1]
        ELSE ma3_forecast(g_m.y)

seasonal_forecast_fallback_only(g_m, last_month, step_idx) ==
    ma3_forecast(g_m.y)

seasonal_forecast(g_m, last_month, step_idx) ==
    LET target == last_month + (step_idx + 1)
        ly == target - 12
    IN  IF ly >= g_m.first /\ ly <= g_m.last
        THEN g_m.y[ly - g_m.first + 1]
        ELSE ma3_forecast(g_m.y)

TodayMonth == 2026 * 12 + 10      \* pd.Timestamp.today() of line 112 (only when hp = 0)

ForecastRow(key, g_m, hp, model_name, last_month, i) ==
    LET raw == IF model_name = "SeasonalNaive" THEN seasonal_forecast(g_m, last_month, i)
               ELSE IF model_name = "MovingAverage-3" THEN ma3_forecast(g_m.y)
               ELSE last_forecast(g_m.y)
        yhat == Max0(raw)
    IN  [series_id |-> <<key[1], key[2]>>, scheme_id |-> key[1], geo_code |-> key[2],
         period |-> PeriodLabel(i + 1),
         forecast_month |-> month_key(last_month + (i + 1)),
         yhat |-> Num(yhat),
         yhat_low |-> Num(Round3(Max0(9 * yhat), 10)),
         yhat_high |-> Num(Round3(11 * yhat, 10)),
         model |-> model_name, history_points |-> hp]

SeriesForecast(rows, key, horizon) ==
    LET g_m == Resample(rows, key)
        hp == Len(g_m.y)
        model_name == ModelName(hp)
        last_month == IF hp = 0 THEN TodayMonth ELSE g_m.last
    IN  [plan |-> [series_id |-> <<key[1], key[2]>>, model |-> model_name,
                   history_points |-> hp],
         rows |-> [k \in 1..horizon |->
                      ForecastRow(key, g_m, hp, model_name, last_month, k - 1)]]

RECURSIVE ConcatRows(_, _, _)
ConcatRows(rows, keys, horizon) ==
    IF keys = <<>> THEN <<>>
    ELSE SeriesForecast(rows, Head(keys), horizon).rows \o ConcatRows(rows, Tail(keys), horizon)

plan_and_forecast(st, arts, features_id, timeframe_, features_data) ==
    LET horizon == Horizon(timeframe_)
        ld == LoadArtifact(st, arts, features_id)
        f0 == IF ld.kind = "df" THEN ld.df ELSE EmptyDF
        f1 == IF DFEmpty(f0) /\ features_data.rows # <<>> THEN features_data ELSE f0
        rows == NormalizedFeats(f1)
        keys == SortKeys(SeriesKeys(rows))
        out_rows == ConcatRows(rows, keys, horizon)
    IN  IF ld.kind = "none" THEN PfRaised("AttributeError")       \* feats.empty on None
        ELSE IF DFEmpty(f1) THEN
            [raised |-> FALSE, exc |-> "", model_plan |-> <<>>,
             forecasts_raw |-> SymbolicKey("forecasts_raw"),
             forecasts_raw_data |-> [cols |-> ForecastCols, rows |-> ZeroRows(horizon)]]
        ELSE IF "date" \notin f1.cols THEN PfRaised("KeyError")   \* dropna(subset=["date"])
        ELSE IF keys # <<>> /\ "apps_count" \notin f1.cols
             THEN PfRaised("KeyError")                            \* resample(...)["apps_count"]
        ELSE
            [raised |-> FALSE, exc |-> "",
             model_plan |-> [k \in 1..Len(keys) |-> SeriesForecast(rows, keys[k], horizon).plan],
             forecasts_raw |-> SaveKey(st, arts, "forecasts_raw"),
             forecasts_raw_data |-> [cols |-> ForecastCols, rows |-> out_rows]]

\* replace the object stored under key
PutArtifact(arts, key, obj) ==
    [i \in 1..Len(arts) |-> IF arts[i].key = key THEN [key |-> key, obj |-> obj] ELSE arts[i]]

\* lines 72-78 assign into the loaded frame itself, which is the stored object
CoercedFeats(f) ==
    [cols |-> f.cols \cup {"scheme_id", "geo_code"},
     rows |-> [i \in 1..Len(f.rows) |->
                 IF "apps_count" \in f.cols
                 THEN [f.rows[i] EXCEPT !.apps_count = IF @.t \in {"num", "frac"} THEN @ ELSE Num(0)]
                 ELSE f.rows[i]]]

\* the store after the call: the loaded feature table coerced in place, and
\* out_df saved on the non-empty path (line 167)
plan_and_forecast_store(st, arts, features_id, res) ==
    LET ld == LoadArtifact(st, arts, features_id)
        a1 == IF ld.kind = "df" /\ ~DFEmpty(ld.df)
              THEN PutArtifact(arts, features_id, CoercedFeats(ld.df)) ELSE arts
    IN  IF res.raised \/ res.forecasts_raw = SymbolicKey("forecasts_raw") THEN a1
        ELSE SaveArtifact(st, a1, "forecasts_raw", res.forecasts_raw_data)

\* ------------------------------------------------------------------------
\* Aggregator: Tools/Aggregator_Drivers.py
\* ------------------------------------------------------------------------
ZeroCards == [total_forecast |-> 0, confidence_range |-> <<0, 0>>, series_count |-> 0]

\* lines 184-189: the empty default of each view (r = None is <<>>)
NoR == <<>>
EmptyUptake == [labels |-> <<>>, data |-> <<>>]
EmptyTrend == [labels |-> <<>>, datasets |-> <<>>]
EmptyPromo == [data |-> <<>>, r |-> NoR]
EmptyPie == [labels |-> <<>>, data |-> <<>>]
EmptyAnalytics ==
    [uptake_by_state |-> EmptyUptake, monthly_trend_multi |-> EmptyTrend,
     promotions_vs_apps |-> EmptyPromo, demographics_pie |-> EmptyPie]

AgRaised(e) ==
    [raised |-> TRUE, exc |-> e, forecasts_agg |-> NoKey, cards |-> ZeroCards,
     drivers |-> <<>>, forecasts_agg_data |-> <<>>, analytics |-> EmptyAnalytics]

\* str.split("|").str[1].fillna(DASH) of the str-cast series_id (line 92)
GeoOfSeriesId(sid) ==
    LET parts == IF sid = NoSeries THEN <<"None">> ELSE sid
    IN  IF Len(parts) >= 2 THEN parts[2] ELSE DASH

\* period label of row i (1-based): the column, or the positional fallback of line 88
PeriodOf(fc, i) ==
    IF "period" \in fc.cols THEN fc.rows[i].period ELSE PeriodLabel(i)

\* fc after lines 82-98 and the work columns of lines 111-115
WorkRows(fc) ==
    [i \in 1..Len(fc.rows) |->
        LET r == fc.rows[i]
            geo == IF "geo_code" \in fc.cols THEN r.geo_code
                   ELSE IF "series_id" \in fc.cols THEN GeoOfSeriesId(r.series_id)
                   ELSE DASH
        IN  [series_id |-> IF "series_id" \in fc.cols THEN r.series_id ELSE NoSeries,
             region    |-> AsTypeStr(geo),
             period    |-> PeriodOf(fc, i),
             expected  |-> IF "yhat" \in fc.cols THEN ToNumeric(r.yhat) ELSE 0,
             low       |-> IF "yhat_low" \in fc.cols THEN ToNumeric(r.yhat_low) ELSE 0,
             high      |-> IF "yhat_high" \in fc.cols THEN ToNumeric(r.yhat_high) ELSE 0]]

\* groupby(["region", "period"]) drops the rows whose key has a null (dropna=True)
GroupKeys(work) ==
    {<<work[i].region, work[i].period>> : i \in {j \in 1..Len(work) : work[j].period # NULL}}

GroupSum(work, key, col) ==
    SumSeq([i \in 1..Len(work) |->
        IF <<work[i].region, work[i].period>> = key THEN work[i][col] ELSE 0])

\* line 117: one row per group, in the sorted order of the keys
GroupBySum(work) ==
    LET keys == SortKeys(GroupKeys(work))
    IN  [k \in 1..Len(keys) |->
            [region |-> keys[k][1], period |-> keys[k][2],
             expected |-> GroupSum(work, keys[k], "expected"),
             low      |-> GroupSum(work, keys[k], "low"),
             high     |-> GroupSum(work, keys[k], "high")]]

SeriesCountRegions(fc, work) == Cardinality({work[i].region : i \in 1..Len(work)})

\* lines 119-126
SeriesCount(fc, work) ==
    LET n == IF "series_id" \in fc.cols
             THEN Cardinality({work[i].series_id : i \in 1..Len(work)} \ {NoSeries})
             ELSE 0
    IN  IF n # 0 THEN n ELSE Cardinality({work[i].region : i \in 1..Len(work)})

CardsOverRows(fc, work, agg) ==
    [total_forecast   |-> SumSeq([k \in 1..Len(work) |-> work[k].expected]),
     confidence_range |-> << SumSeq([k \in 1..Len(work) |-> work[k].low]),
                             SumSeq([k \in 1..Len(work) |-> work[k].high]) >>,
     series_count     |-> SeriesCount(fc, work)]

Cards(fc, work, agg) ==
    [total_forecast   |-> SumSeq([k \in 1..Len(agg) |-> agg[k].expected]),
     confidence_range |-> << SumSeq([k \in 1..Len(agg) |-> agg[k].low]),
                             SumSeq([k \in 1..Len(agg) |-> agg[k].high]) >>,
     series_count     |-> SeriesCount(fc, work)]

\* fx after dropna(subset=["date"]) (line 77)
FxRows(fx) == SelectSeq(fx.rows, LAMBDA r : r.date # NaT)

PromoNote == "Observed promotional activity in prior periods; relationship not assessed."
SeasonalNote == "Seasonal fields present (quarter/month); detailed analysis pending."
BandNote == "Forecast confidence bands vary across periods."
NoDrivers == "Drivers unavailable"

DriversBandIgnored(fx, fxr, work) ==
    LET promo == IF fxr # <<>> /\ "promo_intensity" \in fx.cols
                    /\ SumSeq([i \in 1..Len(fxr) |-> ToNumeric(fxr[i].promo_intensity)]) > 0
                 THEN <<PromoNote>> ELSE <<>>
        seas  == IF fxr # <<>> /\ ("quarter" \in fx.cols \/ "month" \in fx.cols)
                 THEN <<SeasonalNote>> ELSE <<>>
        band  == IF work # <<>>
                    /\ SumSeq([i \in 1..Len(work) |-> Abs(work[i].high - work[i].low)]) > 0
                 THEN <<BandNote>> ELSE <<>>
    IN  IF promo \o seas = <<>> THEN <<NoDrivers>> ELSE promo \o seas \o band

\* lines 140-160; fxr are the rows of fx that are left, work the coerced fc
Drivers(fx, fxr, work) ==
    LET promo == IF fxr # <<>> /\ "promo_intensity" \in fx.cols
                    /\ SumSeq([i \in 1..Len(fxr) |-> ToNumeric(fxr[i].promo_intensity)]) > 0
                 THEN <<PromoNote>> ELSE <<>>
        seas  == IF fxr # <<>> /\ ("quarter" \in fx.cols \/ "month" \in fx.cols)
                 THEN <<SeasonalNote>> ELSE <<>>
        band  == IF work # <<>>
                    /\ SumSeq([i \in 1..Len(work) |-> Abs(work[i].high - work[i].low)]) > 0
                 THEN <<BandNote>> ELSE <<>>
        d == promo \o seas \o band
    IN  IF d = <<>> THEN <<NoDrivers>> ELSE d

\* ---- analytics views (lines 165-289); fxr are the rows of fx left by line 77 ----

\* .round(0).astype(int) of u / Scale: nearest integer, ties to even
RoundInt(u) ==
    LET n2 == 2 * u + Scale
        d2 == 2 * Scale
        k  == n2 \div d2
    IN  IF n2 % d2 = 0 /\ k % 2 = 1 THEN k - 1 ELSE k

\* sum of column val over the rows whose column dim (cast to str) is v
DimTotal(fxr, dim, v, val) ==
    SumSeq([i \in 1..Len(fxr) |-> IF AsTypeStr(fxr[i][dim]) = v THEN Units(fxr[i][val]) ELSE 0])

\* lines 193-201
UptakeByState(fx, fxr) ==
    IF {"geo_code", "apps_count"} \subseteq fx.cols
    THEN LET labels == SortStrs({AsTypeStr(fxr[i].geo_code) : i \in 1..Len(fxr)})
         IN  [labels |-> labels,
              data |-> [k \in 1..Len(labels) |->
                           RoundInt(DimTotal(fxr, "geo_code", labels[k], "apps_count"))]]
    ELSE EmptyUptake

\* lines 204-219
SchemeMonthTotal(fxr, sid, m) ==
    SumSeq([i \in 1..Len(fxr) |->
        IF AsTypeStr(fxr[i].scheme_id) = sid /\ fxr[i].date = <<m>>
        THEN Units(fxr[i].apps_count) ELSE 0])

MonthlyTrendOwnMonths(fx, fxr) ==
    IF {"date", "scheme_id", "apps_count"} \subseteq fx.cols
    THEN LET months == SortInts({fxr[i].date[1] : i \in 1..Len(fxr)})
             sids == SortStrs({AsTypeStr(fxr[i].scheme_id) : i \in 1..Len(fxr)})
             own(sid) == SortInts({fxr[i].date[1] :
                             i \in {j \in 1..Len(fxr) : AsTypeStr(fxr[j].scheme_id) = sid}})
         IN  [labels |-> [k \in 1..Len(months) |-> month_key(months[k])],
              datasets |-> [j \in 1..Len(sids) |->
                  [label |-> sids[j],
                   data |-> [k \in 1..Len(own(sids[j])) |->
                                RoundInt(SchemeMonthTotal(fxr, sids[j], own(sids[j])[k]))]]]]
    ELSE EmptyTrend

MonthlyTrendMulti(fx, fxr) ==
    IF {"date", "scheme_id", "apps_count"} \subseteq fx.cols
    THEN LET months == SortInts({fxr[i].date[1] : i \in 1..Len(fxr)})
             sids == SortStrs({AsTypeStr(fxr[i].scheme_id) : i \in 1..Len(fxr)})
         IN  [labels |-> [k \in 1..Len(months) |-> month_key(months[k])],
              datasets |-> [j \in 1..Len(sids) |->
                  [label |-> sids[j],
                   data |-> [k \in 1..Len(months) |->
                                RoundInt(SchemeMonthTotal(fxr, sids[j], months[k]))]]]]
    ELSE EmptyTrend

\* a / b <= c / d for non-negative a, c and positive b, d, without forming products
RECURSIVE FracLeq(_, _, _, _)
FracLeq(a, b, c, d) ==
    IF a \div b # c \div d THEN a \div b < c \div d
    ELSE IF a % b = 0 THEN TRUE
    ELSE IF c % d = 0 THEN FALSE
    ELSE FracLeq(d, c % d, b, a % b)

\* lines 168-182 on the paired values xs, ys: <<>> for None, else <<k>> with
\* k / 1000 = round(num / den, 3).  With X[i] = n xs[i] - sum(xs) and likewise Y,
\* num / den = sum(X Y) / sqrt(sum(X^2) sum(Y^2)).
PearsonOf(xs, ys) ==
    LET n  == Len(xs)
        sx == SumSeq(xs)
        sy == SumSeq(ys)
        X  == [i \in 1..n |-> n * xs[i] - sx]
        Y  == [i \in 1..n |-> n * ys[i] - sy]
        num == SumSeq([i \in 1..n |-> X[i] * Y[i]])
        den2 == SumSeq([i \in 1..n |-> X[i] * X[i]]) * SumSeq([i \in 1..n |-> Y[i] * Y[i]])
        \* the number of half-steps (2k - 1) / 2000 that |r| reaches
        K == Cardinality({k \in 1..1000 :
                 /\ FracLeq((2 * k - 1) * (2 * k - 1), 4 * 1000 * 1000, num * num, den2)
                 /\ ~( k % 2 = 1
                       /\ FracLeq(num * num, den2, (2 * k - 1) * (2 * k - 1), 4 * 1000 * 1000) )})
    IN  IF n = 0 THEN NoR
        ELSE IF den2 = 0 THEN NoR
        ELSE IF num < 0 THEN << -K >> ELSE <<K>>

\* r does not depend on the unit of either variable: whole counts are taken as
\* such, and halves in units of one half
WholeUnits(xs) ==
    IF \A i \in 1..Len(xs) : xs[i] % Scale = 0
    THEN [i \in 1..Len(xs) |-> xs[i] \div Scale]
    ELSE IF \A i \in 1..Len(xs) : xs[i] % (Scale \div 2) = 0
    THEN [i \in 1..Len(xs) |-> xs[i] \div (Scale \div 2)]
    ELSE xs

pearson_zero_for_constant(xs, ys) ==
    LET r == PearsonOf(WholeUnits(xs), WholeUnits(ys))
    IN  IF Len(xs) > 0 /\ r = NoR THEN <<0>> ELSE r

pearson(xs, ys) == PearsonOf(WholeUnits(xs), WholeUnits(ys))

\* lines 222-242: one point per (scheme_id, geo_code, month_key), in key order
JoinKeys(fxr) ==
    {<<AsTypeStr(fxr[i].scheme_id), AsTypeStr(fxr[i].geo_code), fxr[i].date[1]>> : i \in 1..Len(fxr)}
JoinRank(k) == KeyRank(<<k[1], k[2]>>) * 100 + (k[3] - 2024 * 12)
JoinTotal(fxr, k, val) ==
    SumSeq([i \in 1..Len(fxr) |->
        IF <<AsTypeStr(fxr[i].scheme_id), AsTypeStr(fxr[i].geo_code), fxr[i].date[1]>> = k
        THEN Units(fxr[i][val]) ELSE 0])

PromotionsVsApps(fx, fxr) ==
    IF {"date", "scheme_id", "geo_code", "apps_count", "promo_intensity"} \subseteq fx.cols
    THEN LET keys == SortRanked({<<JoinRank(k), k>> : k \in JoinKeys(fxr)})
             xs == [j \in 1..Len(keys) |-> JoinTotal(fxr, keys[j], "promo_intensity")]
             ys == [j \in 1..Len(keys) |-> JoinTotal(fxr, keys[j], "apps_count")]
         IN  [data |-> [j \in 1..Len(keys) |->
                  [x |-> xs[j], y |-> ys[j],
                   label |-> <<keys[j][1], keys[j][2], month_key(keys[j][3])>>]],
              r |-> pearson(xs, ys)]
    ELSE EmptyPromo

\* lines 269-281
age_bucket(x) ==
    IF x.t # "num" THEN "Unknown"
    ELSE IF x.n < 18 THEN "<18"
    ELSE IF x.n <= 25 THEN "18-25"
    ELSE IF x.n <= 35 THEN "26-35"
    ELSE IF x.n <= 50 THEN "36-50"
    ELSE "50+"

\* the dimension the pie is cut by (lines 246, 253, 260, 267), "" when none
PieDimension(fx, fxr) ==
    IF "applicant_gender" \in fx.cols THEN "applicant_gender"
    ELSE IF "income_bracket" \in fx.cols THEN "income_bracket"
    ELSE IF "occupation" \in fx.cols THEN "occupation"
    ELSE IF "applicant_age" \in fx.cols /\ \E i \in 1..Len(fxr) : fxr[i].applicant_age.t = "num"
         THEN "applicant_age"
    ELSE ""

PieCategory(r, dim) == IF dim = "applicant_age" THEN age_bucket(r.applicant_age) ELSE AsTypeStr(r[dim])

\* sort_values("apps_count", ascending=False): largest total first, ties in group order
RECURSIVE SortDescending(_)
SortDescending(T) ==
    IF T = {} THEN <<>>
    ELSE LET m == CHOOSE x \in T : \A y \in T : x[1] > y[1] \/ (x[1] = y[1] /\ x[2] <= y[2])
         IN  <<m>> \o SortDescending(T \ {m})

DemographicsPie(fx, fxr) ==
    LET dim == PieDimension(fx, fxr)
        cats == SortStrs({PieCategory(fxr[i], dim) : i \in 1..Len(fxr)})
        total(c) == SumSeq([i \in 1..Len(fxr) |->
                        IF PieCategory(fxr[i], dim) = c THEN Units(fxr[i].apps_count) ELSE 0])
        g == SortDescending({<<total(cats[k]), k, cats[k]>> : k \in 1..Len(cats)})
    IN  IF dim = "" THEN EmptyPie
        ELSE [labels |-> [k \in 1..Len(g) |-> g[k][3]],
              data |-> [k \in 1..Len(g) |-> RoundInt(g[k][1])]]

\* lines 184-289
Analytics(fx, fxr) ==
    IF fxr = <<>> THEN EmptyAnalytics
    ELSE [uptake_by_state |-> UptakeByState(fx, fxr),
          monthly_trend_multi |-> MonthlyTrendMulti(fx, fxr),
          promotions_vs_apps |-> PromotionsVsApps(fx, fxr),
          demographics_pie |-> DemographicsPie(fx, fxr)]

aggregate_and_drivers(st, arts, forecasts_raw_id, features_id, forecasts_raw_data, features_data) ==
    LET fcL == LoadArtifact(st, arts, forecasts_raw_id)
        fc0 == IF fcL.kind = "df" THEN fcL.df ELSE EmptyDF
        fc  == IF DFEmpty(fc0) /\ forecasts_raw_data.rows # <<>> THEN forecasts_raw_data ELSE fc0
        fxL == LoadArtifact(st, arts, features_id)
        fx0 == IF fxL.kind = "df" THEN fxL.df ELSE EmptyDF
        fx  == IF DFEmpty(fx0) /\ features_data.rows # <<>> THEN features_data ELSE fx0
        fxr == IF DFEmpty(fx) THEN <<>> ELSE FxRows(fx)
        work == WorkRows(fc)
        agg == IF work = <<>> THEN <<>> ELSE GroupBySum(work)
        cards == IF work = <<>> THEN ZeroCards ELSE Cards(fc, work, agg)
    IN  IF fcL.kind = "none" THEN AgRaised("AttributeError")          \* fc.empty on None
        ELSE IF fxL.kind = "none" THEN AgRaised("AttributeError")     \* fx.empty on None
        ELSE IF ~DFEmpty(fx) /\ "date" \notin fx.cols
             THEN AgRaised("KeyError")                                \* dropna(subset=["date"])
        ELSE IF fxr # <<>> /\ PieDimension(fx, fxr) # "" /\ "apps_count" \notin fx.cols
             THEN AgRaised("KeyError")                 \* groupby(<dimension>)["apps_count"]
        ELSE
            [raised |-> FALSE, exc |-> "",
             forecasts_agg |-> SaveKey(st, arts, "forecasts_agg"),
             cards |-> cards,
             drivers |-> Drivers(fx, fxr, work),
             forecasts_agg_data |-> agg,
             analytics |-> Analytics(fx, fxr)]

\* lines 69-76 and 82-98 assign into the loaded frames, which are the stored objects
CoercedFx(fx) ==
    [cols |-> fx.cols,
     rows |-> [i \in 1..Len(fx.rows) |->
                 [fx.rows[i] EXCEPT
                    !.scheme_id = AsTypeStr(@),
                    !.geo_code = AsTypeStr(@),
                    !.apps_count = IF "apps_count" \in fx.cols /\ @.t = "str" THEN NaN ELSE @]]]

CoercedFc(fc) ==
    LET work == WorkRows(fc)
    IN  [cols |-> fc.cols \cup {"yhat", "yhat_low", "yhat_high", "period", "geo_code"},
         rows |-> [i \in 1..Len(fc.rows) |->
                     [fc.rows[i] EXCEPT
                        !.yhat = Num(work[i].expected),
                        !.yhat_low = Num(work[i].low),
                        !.yhat_high = Num(work[i].high),
                        !.period = work[i].period,
                        !.geo_code = IF "geo_code" \in fc.cols THEN @ ELSE work[i].region]]]

\* the store after the call: loaded frames coerced in place, the aggregate saved
aggregate_and_drivers_store(st, arts, forecasts_raw_id, features_id, forecasts_raw_data, res) ==
    LET fcL == LoadArtifact(st, arts, forecasts_raw_id)
        fxL == LoadArtifact(st, arts, features_id)
        a1 == IF fcL.kind # "none" /\ fxL.kind = "df" /\ ~DFEmpty(fxL.df)
              THEN PutArtifact(arts, features_id, CoercedFx(fxL.df)) ELSE arts
        a2 == IF ~res.raised /\ fcL.kind = "df"
                 /\ ~(DFEmpty(fcL.df) /\ forecasts_raw_data.rows # <<>>)
              THEN PutArtifact(a1, forecasts_raw_id, CoercedFc(fcL.df)) ELSE a1
    IN  IF res.raised THEN a2
        ELSE SaveArtifact(st, a2, "forecasts_agg",
                          [cols |-> {"region", "period", "expected", "low", "high"},
                           rows |-> res.forecasts_agg_data])

\* ------------------------------------------------------------------------
\* Feature Builder: Tools/Data_quality_featureEngineer.py
\* ------------------------------------------------------------------------
\* A raw date cell is <<m>> (a date that parses), <<>> (missing) or BadDate (a
\* string that does not parse).
BadDate == <<0, 0>>
ToDatetime(c) == IF Len(c) = 1 THEN c ELSE NaT          \* errors="coerce"

\* str.strip() on the strings that occur
Strip(x) == IF x = " NY" THEN "NY" ELSE x

\* lines 63-76: canonical column names
Alias(c) ==
    IF c \in {"state", "state_code", "region", "region_code", "geoid"} THEN "geo_code"
    ELSE IF c \in {"applications", "application_count", "apps", "count", "app_count"}
         THEN "apps_count"
    ELSE c

Essentials == <<"date", "scheme_id", "geo_code", "apps_count">>
FeatureCols == {"date", "scheme_id", "geo_code", "apps_count", "month", "quarter", "year", "lag_1"}

MissingNote(c) == [kind |-> "missing column", col |-> c, n |-> 0]
DroppedNote(n) == [kind |-> "dropped rows", col |-> "", n |-> n]

NoFb ==
    [raised |-> TRUE, exc |-> "", features |-> NoKey, features_data |-> <<>>,
     notes |-> <<>>, rows_applications |-> 0, cleaned_applications |-> NoKey]
FbRaised(e) == [NoFb EXCEPT !.exc = e]

\* lines 57-103 for the applications table
alias_and_clean(df) ==
    LET cols == {Alias(c) : c \in df.cols}
    IN  [cols |-> cols \cup {Essentials[k] : k \in 1..4},
         notes |-> SelectSeq([k \in 1..4 |-> MissingNote(Essentials[k])],
                             LAMBDA x : x.col \notin cols),
         rows |-> [i \in 1..Len(df.rows) |->
             [date |-> IF "date" \in cols THEN ToDatetime(df.rows[i].date) ELSE NaT,
              scheme_id |-> IF "scheme_id" \in cols THEN Strip(df.rows[i].scheme_id) ELSE NULL,
              geo_code |-> IF "geo_code" \in cols THEN Strip(df.rows[i].geo_code) ELSE NULL,
              apps_count |-> IF "apps_count" \in cols /\ df.rows[i].apps_count.t \in {"num", "frac"}
                             THEN df.rows[i].apps_count ELSE NaN]]]

PrunedNoFill(rows) == SelectSeq(rows, LAMBDA r : r.date # NaT)

\* lines 112-122: rows without a date go, a missing count becomes 0.0
Pruned(rows) ==
    LET kept == SelectSeq(rows, LAMBDA r : r.date # NaT)
    IN  [i \in 1..Len(kept) |->
            [kept[i] EXCEPT !.apps_count = IF @.t = "nan" THEN Num(0) ELSE @]]

\* line 162: sort_values(["scheme_id", "geo_code", "date"]), rows of equal key in
\* their order of arrival
RowRank(r) == KeyRank(<<r.scheme_id, r.geo_code>>) * 100 + (r.date[1] - 2024 * 12)
SortRows(rows) ==
    SortRanked({<<RowRank(rows[i]) * (Len(rows) + 1) + i, rows[i]>> : i \in 1..Len(rows)})

LagOfPreviousRow(rows, i) ==
    IF i > 1 THEN rows[i - 1].apps_count ELSE Num(0)

\* line 163: groupby(["scheme_id", "geo_code"]).shift(1).fillna(0.0) on the sorted rows
Lag1(rows, i) ==
    LET before == {j \in 1..(i - 1) :
                      rows[j].scheme_id = rows[i].scheme_id /\ rows[j].geo_code = rows[i].geo_code}
    IN  IF before = {} THEN Num(0) ELSE rows[MaxOf(before)].apps_count

\* lines 152-164
Features(rows) ==
    LET df == SortRows(rows)
    IN  [i \in 1..Len(df) |->
            [date |-> df[i].date, scheme_id |-> df[i].scheme_id, geo_code |-> df[i].geo_code,
             apps_count |-> df[i].apps_count,
             month |-> (df[i].date[1] % 12) + 1,
             quarter |-> ((df[i].date[1] % 12) \div 3) + 1,
             year |-> df[i].date[1] \div 12,
             lag_1 |-> Lag1(df, i)]]

\* lines 171-178: monthly sums per (scheme_id, geo_code, month_key)
MonthlyApps(rows) ==
    LET keys == SortRanked({<<RowRank(rows[i]), <<rows[i].scheme_id, rows[i].geo_code, rows[i].date[1]>>>> :
                               i \in 1..Len(rows)})
    IN  [k \in 1..Len(keys) |->
            [scheme_id |-> keys[k][1], geo_code |-> keys[k][2], month_key |-> month_key(keys[k][3]),
             apps_count |-> SumSeq([i \in 1..Len(rows) |->
                 IF <<rows[i].scheme_id, rows[i].geo_code, rows[i].date[1]>> = keys[k]
                 THEN Units(rows[i].apps_count) ELSE 0])]]

\* the applications table after loading, cleaning and pruning
CleanApps(st, arts, applications_id) ==
    LET ld == LoadArtifact(st, arts, applications_id)
        raw == IF ld.kind = "df" THEN ld.df ELSE EmptyDF
        cl == IF DFEmpty(raw) THEN [cols |-> raw.cols, notes |-> <<>>, rows |-> raw.rows]
              ELSE alias_and_clean(raw)
        rows == IF DFEmpty(raw) THEN <<>> ELSE Pruned(cl.rows)
        dropped == Len(cl.rows) - Len(rows)
        \* _load notes its fallback: each of the four loads when the store is
        \* absent, the applications load when the store raises
        fallback == [kind |-> "load fallback", col |-> "", n |-> 0]
    IN  [cols |-> cl.cols, rows |-> rows,
         notes |-> (IF st = "absent" THEN <<fallback, fallback, fallback, fallback>>
                    ELSE IF st = "raising" /\ applications_id # NoKey THEN <<fallback>>
                    ELSE <<>>)
                   \o cl.notes
                   \o (IF dropped > 0 THEN <<DroppedNote(dropped)>> ELSE <<>>)]

dq_and_fe(st, arts, applications_id) ==
    LET ld == LoadArtifact(st, arts, applications_id)
        a == CleanApps(st, arts, applications_id)
        feats_ == IF a.rows = <<>> THEN <<>> ELSE Features(a.rows)
    IN  IF ld.kind = "none" THEN FbRaised("AttributeError")          \* df.empty on None
        ELSE [raised |-> FALSE, exc |-> "",
              features |-> IF st = "mem" THEN <<"mem", "features_m1", Len(arts) + 5>>
                           ELSE SymbolicKey("/mnt/data/features_m1.csv"),
              features_data |-> feats_,
              notes |-> a.notes,
              rows_applications |-> Len(a.rows),
              cleaned_applications |-> IF st = "mem" THEN FreshKey(arts, "applications_clean")
                                       ELSE SymbolicKey("/mnt/data/applications_clean.csv")]

\* the store after the call: the four cleaned snapshots, the feature table and
\* the monthly tables (lines 144-149, 166, 178, 210)
dq_and_fe_store(st, arts, applications_id, res) ==
    LET a == CleanApps(st, arts, applications_id)
        a1 == SaveArtifact(st, arts, "applications_clean", [cols |-> a.cols, rows |-> a.rows])
        a2 == SaveArtifact(st, a1, "promotions_clean", EmptyDF)
        a3 == SaveArtifact(st, a2, "demographics_clean", EmptyDF)
        a4 == SaveArtifact(st, a3, "socio_econ_clean", EmptyDF)
        a5 == SaveArtifact(st, a4, "features_m1",
                           [cols |-> IF a.rows = <<>> THEN FeatureCols ELSE a.cols \cup FeatureCols,
                            rows |-> res.features_data])
        m  == MonthlyApps(a.rows)
        a6 == SaveArtifact(st, a5, "monthly_apps",
                           [cols |-> {"scheme_id", "geo_code", "month_key", "apps_count"}, rows |-> m])
        a7 == SaveArtifact(st, a6, "monthly_apps_promos_join",
                           [cols |-> {"scheme_id", "geo_code", "month_key", "apps_count",
                                      "promo_intensity"},
                            rows |-> [k \in 1..Len(m) |->
                                [scheme_id |-> m[k].scheme_id, geo_code |-> m[k].geo_code,
                                 month_key |-> m[k].month_key, apps_count |-> m[k].apps_count,
                                 promo_intensity |-> 0]]])
    IN  IF res.raised THEN arts
        ELSE IF a.rows = <<>> THEN a5
        ELSE a7

\* ------------------------------------------------------------------------
\* Inputs
\* ------------------------------------------------------------------------
Jan2024 == 2024 * 12

FeatCols == {"date", "scheme_id", "geo_code", "apps_count"}
FeatRow(d, s, g, a) == [date |-> d, scheme_id |-> s, geo_code |-> g, apps_count |-> a]

\* observations of series S1|NY over an 18-month span, plus malformed rows
\* (missing date, negative count, non-numeric count), a count that is a small
\* fraction, and a second series
FeatRowChoices ==
    {FeatRow(<<Jan2024>>, "S1", "NY", Num(10)),
     FeatRow(<<Jan2024 + 1>>, "S1", "NY", Num(20)),
     FeatRow(<<Jan2024 + 2>>, "S1", "NY", Num(10)),
     FeatRow(<<Jan2024 + 17>>, "S1", "NY", Num(20)),
     FeatRow(NaT, "S1", "NY", Num(10)),
     FeatRow(<<Jan2024 + 2>>, "S1", "NY", Num(-5)),
     FeatRow(<<Jan2024>>, "S1", "NY", Str),
     FeatRow(<<Jan2024>>, "S1", "NY", Frac(3)),
     FeatRow(<<Jan2024>>, "S1", "CA", Num(10)),
     FeatRow(NaT, "S1", "CA", Num(10))}

\* schema drift: the table as ingested may lack the date or the apps_count column
FeatColChoices == {FeatCols, FeatCols \ {"date"}, FeatCols \ {"apps_count"}}

BlankFeatRow(r, cols) ==
    [date |-> IF "date" \in cols THEN r.date ELSE NaT,
     scheme_id |-> r.scheme_id, geo_code |-> r.geo_code,
     apps_count |-> IF "apps_count" \in cols THEN r.apps_count ELSE NaN]

SeqsUpTo(S, n) == UNION {[1..k -> S] : k \in 0..n}

FeatTables ==
    {[cols |-> c, rows |-> [i \in 1..Len(rs) |-> BlankFeatRow(rs[i], c)]] :
        c \in FeatColChoices, rs \in SeqsUpTo(FeatRowChoices, MaxFeat)}

TimeframeVals == {NULL, "next_quarter", "next_6_months", "next_year", "NEXT_YEAR", "next_month"}
StoreKinds == {"absent", "mem", "raising"}

AggCols == {"series_id", "geo_code", "period", "yhat", "yhat_low", "yhat_high"}
FcRow(s, g, p, y, lo, hi) ==
    [series_id |-> s, geo_code |-> g, period |-> p, yhat |-> y, yhat_low |-> lo, yhat_high |-> hi]

\* forecast rows of two regions and two periods, plus rows with a null period,
\* a null region, a non-numeric yhat, a second series and a zero-width band
FcRowChoices ==
    {FcRow(<<"S1", g>>, g, p, Num(y), Num((9 * y) \div 10), Num((11 * y) \div 10)) :
        g \in {"A", "B"}, p \in {"P1", "P2"}, y \in {10, 20}}
    \cup {FcRow(<<"S1", "A">>, "A", NULL, Num(10), Num(9), Num(11)),
          FcRow(<<"S1", "B">>, NULL, "P1", Num(20), Num(18), Num(22)),
          FcRow(<<"S1", "A">>, "A", "P1", Str, NaN, NaN),
          FcRow(<<"S2", "A">>, "A", "P1", Num(10), Num(10), Num(10)),
          FcRow(NoSeries, "B", "P2", Num(0), Num(0), Num(0))}

FcColChoices ==
    {AggCols, AggCols \ {"period"}, AggCols \ {"series_id"}, AggCols \ {"geo_code"},
     AggCols \ {"yhat_low", "yhat_high"}}

BlankFcRow(r, cols) ==
    [series_id |-> IF "series_id" \in cols THEN r.series_id ELSE NoSeries,
     geo_code  |-> IF "geo_code" \in cols THEN r.geo_code ELSE NULL,
     period    |-> IF "period" \in cols THEN r.period ELSE NULL,
     yhat      |-> IF "yhat" \in cols THEN r.yhat ELSE NaN,
     yhat_low  |-> IF "yhat_low" \in cols THEN r.yhat_low ELSE NaN,
     yhat_high |-> IF "yhat_high" \in cols THEN r.yhat_high ELSE NaN]

FcTables ==
    {[cols |-> c, rows |-> [i \in 1..Len(rs) |-> BlankFcRow(rs[i], c)]] :
        c \in FcColChoices, rs \in SeqsUpTo(FcRowChoices, MaxRows)}

\* ------------------------------------------------------------------------
\* The run: main.py run_endpoint, steps 3 and 4
\* ------------------------------------------------------------------------
NoPf == PfRaised("")
NoAg == AgRaised("")

\* what dq_and_fe hands on: the id under which the feature table was saved
FeaturesId(st) == IF st = "mem" THEN <<"mem", "features_m1", 1>> ELSE SymbolicKey("features_m1")

Init ==
    /\ feats \in FeatTables
    /\ timeframe \in TimeframeVals
    /\ store \in StoreKinds
    /\ artStore = IF store = "mem" THEN <<[key |-> FeaturesId(store), obj |-> feats]>> ELSE <<>>
    /\ pc = "start"
    /\ errors = <<>>
    /\ pfRes = NoPf
    /\ agRes = NoAg
    /\ fcIn = EmptyDF
    /\ fcPerm = EmptyDF
    /\ agFirst = NoAg
    /\ apps = EmptyDF
    /\ fbRes = NoFb
    /\ runs = <<>>

\* main.py lines 244-261
PlanAndForecast ==
    /\ pc = "start"
    /\ LET r == plan_and_forecast(store, artStore, FeaturesId(store), timeframe, feats)
       IN  /\ pfRes' = r
           /\ artStore' = plan_and_forecast_store(store, artStore, FeaturesId(store), r)
           /\ errors' = IF r.raised THEN Append(errors, "plan_and_forecast exception") ELSE errors
    /\ pc' = "planned"
    /\ UNCHANGED <<feats, timeframe, store, agRes, fcIn, fcPerm, agFirst, apps, fbRes, runs>>

\* main.py lines 256, 259-260: pf_res, or its default when the stage raised
ForecastsRawId == IF pfRes.raised THEN NoKey ELSE pfRes.forecasts_raw
ForecastsRawData == IF pfRes.raised THEN EmptyDF ELSE pfRes.forecasts_raw_data

\* main.py lines 263-285
AggregateAndDrivers ==
    /\ pc = "planned"
    /\ LET r == aggregate_and_drivers(store, artStore, ForecastsRawId, FeaturesId(store),
                                      ForecastsRawData, feats)
       IN  /\ agRes' = r
           /\ artStore' = aggregate_and_drivers_store(store, artStore, ForecastsRawId,
                                                      FeaturesId(store), ForecastsRawData, r)
           /\ errors' = IF r.raised THEN Append(errors, "aggregate_and_drivers exception") ELSE errors
    /\ pc' = "done"
    /\ UNCHANGED <<feats, timeframe, store, pfRes, fcIn, fcPerm, agFirst, apps, fbRes, runs>>

Next == PlanAndForecast \/ AggregateAndDrivers

Spec == Init /\ [][Next]_vars

\* ------------------------------------------------------------------------
\* Stand-alone Aggregator calls on in-memory forecast rows
\* ------------------------------------------------------------------------
InitAgg ==
    /\ fcIn \in FcTables
    /\ fcPerm = fcIn
    /\ feats = EmptyDF
    /\ timeframe = NULL
    /\ store = "absent"
    /\ artStore = <<>>
    /\ pc = "agg_ready"
    /\ errors = <<>>
    /\ pfRes = NoPf
    /\ agRes = NoAg
    /\ agFirst = NoAg
    /\ apps = EmptyDF
    /\ fbRes = NoFb
    /\ runs = <<>>

\* aggregate_and_drivers(forecasts_raw_data = rows)
AggregateCall ==
    /\ pc = "agg_ready"
    /\ agRes' = aggregate_and_drivers(store, artStore, NoKey, NoKey, fcIn, EmptyDF)
    /\ agFirst' = agRes'
    /\ pc' = "agg_done"
    /\ UNCHANGED <<feats, timeframe, store, artStore, errors, pfRes, fcIn, fcPerm, apps, fbRes, runs>>

Swap(s, i, j) == [k \in 1..Len(s) |-> IF k = i THEN s[j] ELSE IF k = j THEN s[i] ELSE s[k]]

\* the caller re-runs the Aggregator on the same rows in another order
AggregateReordered ==
    /\ pc \in {"agg_done", "agg_rerun"}
    /\ \E i, j \in 1..Len(fcPerm.rows) :
        /\ i < j
        /\ fcPerm' = [fcPerm EXCEPT !.rows = Swap(fcPerm.rows, i, j)]
    /\ agRes' = aggregate_and_drivers(store, artStore, NoKey, NoKey, fcPerm', EmptyDF)
    /\ pc' = "agg_rerun"
    /\ UNCHANGED <<feats, timeframe, store, artStore, errors, pfRes, fcIn, agFirst, apps, fbRes, runs>>

NextAgg == AggregateCall \/ AggregateReordered

SpecAgg == InitAgg /\ [][NextAgg]_vars

\* ------------------------------------------------------------------------
\* Stand-alone Aggregator calls with feature rows (driver notes, analytics)
\* ------------------------------------------------------------------------
FxCols ==
    FeatCols \cup {"promo_intensity", "month", "quarter",
                   "applicant_gender", "income_bracket", "occupation", "applicant_age"}
FxRow(d, s, g, a, p, gender, income, occ, age) ==
    [date |-> d, scheme_id |-> s, geo_code |-> g, apps_count |-> a, promo_intensity |-> p,
     applicant_gender |-> gender, income_bracket |-> income, occupation |-> occ,
     applicant_age |-> age]

FxRowChoices ==
    {FxRow(<<Jan2024>>, "S1", "NY", Num(10), Num(0), "F", "low", "A", Num(17)),
     FxRow(<<Jan2024 + 1>>, "S1", "NY", Num(20), Num(5), "M", "high", "B", Num(30)),
     FxRow(<<Jan2024>>, "S2", "CA", Num(20), Num(5), "F", NULL, "A", NaN),
     FxRow(NaT, "S1", "NY", Num(10), Num(5), "M", "low", "B", Num(60)),
     FxRow(<<Jan2024>>, "S1", "NY", Str, Str, NULL, "high", "A", Str),
     FxRow(<<Jan2024 + 1>>, "S2", "NY", Num(10), Num(0), NULL, NULL, NULL, Num(60)),
     FxRow(<<Jan2024 + 1>>, "S1", "CA", Num(30), Num(10), "M", "low", "B", Num(26))}

\* feature tables as the Feature Builder hands them on, with and without the
\* optional columns, and tables that lack a required column
FxColChoices ==
    {FeatCols,
     FeatCols \cup {"promo_intensity"},
     FeatCols \cup {"month", "quarter"},
     FxCols,
     {"date", "scheme_id", "geo_code", "applicant_gender"},
     FeatCols \cup {"income_bracket"},
     FeatCols \cup {"occupation"},
     FeatCols \cup {"applicant_age"},
     (FeatCols \ {"date"}) \cup {"month"},
     {"date", "scheme_id", "apps_count", "promo_intensity"},
     {"date", "geo_code", "apps_count"}}

BlankFxRow(r, cols) ==
    [date |-> IF "date" \in cols THEN r.date ELSE NaT,
     scheme_id |-> IF "scheme_id" \in cols THEN r.scheme_id ELSE NULL,
     geo_code |-> IF "geo_code" \in cols THEN r.geo_code ELSE NULL,
     apps_count |-> IF "apps_count" \in cols THEN r.apps_count ELSE NaN,
     promo_intensity |-> IF "promo_intensity" \in cols THEN r.promo_intensity ELSE NaN,
     applicant_gender |-> IF "applicant_gender" \in cols THEN r.applicant_gender ELSE NULL,
     income_bracket |-> IF "income_bracket" \in cols THEN r.income_bracket ELSE NULL,
     occupation |-> IF "occupation" \in cols THEN r.occupation ELSE NULL,
     applicant_age |-> IF "applicant_age" \in cols THEN r.applicant_age ELSE NaN]

FxTables ==
    {[cols |-> c, rows |-> [i \in 1..Len(rs) |-> BlankFxRow(rs[i], c)]] :
        c \in FxColChoices, rs \in SeqsUpTo(FxRowChoices, MaxFx)}

\* forecast rows for these calls: none, a row with a band, a row with a
\* zero-width band, a row without band columns
AnFcTables ==
    {EmptyDF,
     [cols |-> AggCols,
      rows |-> <<FcRow(<<"S1", "NY">>, "NY", "P1", Num(10), Num(9), Num(11))>>],
     [cols |-> AggCols,
      rows |-> <<FcRow(<<"S1", "NY">>, "NY", "P1", Num(10), Num(10), Num(10))>>],
     [cols |-> AggCols \ {"yhat_low", "yhat_high"},
      rows |-> <<FcRow(<<"S1", "NY">>, "NY", "P1", Num(10), NaN, NaN)>>]}

InitAn ==
    /\ feats \in FxTables
    /\ fcIn \in AnFcTables
    /\ fcPerm = fcIn
    /\ timeframe = NULL
    /\ store = "absent"
    /\ artStore = <<>>
    /\ pc = "an_ready"
    /\ errors = <<>>
    /\ pfRes = NoPf
    /\ agRes = NoAg
    /\ agFirst = NoAg
    /\ apps = EmptyDF
    /\ fbRes = NoFb
    /\ runs = <<>>

\* aggregate_and_drivers(forecasts_raw_data = rows, features_data = feature rows)
AnalyticsCall ==
    /\ pc = "an_ready"
    /\ agRes' = aggregate_and_drivers(store, artStore, NoKey, NoKey, fcIn, feats)
    /\ agFirst' = agRes'
    /\ pc' = "an_done"
    /\ UNCHANGED <<feats, timeframe, store, artStore, errors, pfRes, fcIn, fcPerm, apps, fbRes, runs>>

NextAn == AnalyticsCall

SpecAn == InitAn /\ [][NextAn]_vars

\* ------------------------------------------------------------------------
\* Stand-alone Aggregator calls for the chart views: complete feature tables
\* with several months, schemes and a non-integral count
\* ------------------------------------------------------------------------
ChartRow(d, s, g, a, p) == FxRow(d, s, g, a, p, "F", "low", "A", Num(30))

ChartRowChoices ==
    {ChartRow(<<Jan2024>>, "S1", "NY", Num(1), Num(0)),
     ChartRow(<<Jan2024 + 1>>, "S1", "NY", Num(2), Num(1)),
     ChartRow(<<Jan2024 + 1>>, "S2", "CA", Num(1), Num(2)),
     ChartRow(<<Jan2024 + 2>>, "S2", "NY", Frac(3 * (Scale \div 2)), Num(1)),
     ChartRow(<<Jan2024>>, "S1", "NY", Num(3), Num(1)),
     ChartRow(NaT, "S1", "NY", Num(1), Num(1)),
     ChartRow(<<Jan2024>>, NULL, "NY", Str, Str)}

ChartTables ==
    {[cols |-> FxCols, rows |-> rs] : rs \in SeqsUpTo(ChartRowChoices, MaxChart)}

InitCharts ==
    /\ feats \in ChartTables
    /\ fcIn = EmptyDF
    /\ fcPerm = fcIn
    /\ timeframe = NULL
    /\ store = "absent"
    /\ artStore = <<>>
    /\ pc = "an_ready"
    /\ errors = <<>>
    /\ pfRes = NoPf
    /\ agRes = NoAg
    /\ agFirst = NoAg
    /\ apps = EmptyDF
    /\ fbRes = NoFb
    /\ runs = <<>>

SpecCharts == InitCharts /\ [][NextAn]_vars

\* ------------------------------------------------------------------------
AppsRow(d, sid, g, a) == [date |-> d, scheme_id |-> sid, geo_code |-> g, apps_count |-> a]

\* observations of three series, with a repeated (series, date), a padded
\* region code, a non-numeric count, a missing and an unparseable date
AppsRowChoices ==
    {AppsRow(<<Jan2024>>, "S1", "NY", Num(10)),
     AppsRow(<<Jan2024 + 1>>, "S1", "NY", Num(20)),
     AppsRow(<<Jan2024>>, "S1", "NY", Num(20)),
     AppsRow(<<Jan2024>>, "S1", "CA", Num(10)),
     AppsRow(<<Jan2024 + 1>>, "S2", "NY", Str),
     AppsRow(NaT, "S1", "NY", Num(10)),
     AppsRow(BadDate, "S1", "CA", Num(20)),
     AppsRow(<<Jan2024>>, "S1", " NY", Num(30))}

AppsColChoices ==
    {FeatCols, FeatCols \ {"date"}, FeatCols \ {"apps_count"}, FeatCols \ {"scheme_id"},
     {"date", "scheme_id", "state", "applications"}}

BlankAppsRow(r, cols) ==
    [date |-> IF "date" \in cols THEN r.date ELSE NaT,
     scheme_id |-> IF "scheme_id" \in cols THEN r.scheme_id ELSE NULL,
     geo_code |-> IF {"geo_code", "state"} \cap cols # {} THEN r.geo_code ELSE NULL,
     apps_count |-> IF {"apps_count", "applications"} \cap cols # {} THEN r.apps_count ELSE NaN]

AppsTables ==
    {[cols |-> c, rows |-> [i \in 1..Len(rs) |-> BlankAppsRow(rs[i], c)]] :
        c \in AppsColChoices, rs \in SeqsUpTo(AppsRowChoices, MaxApps)}

\* the id the sheets stage hands on: none when it staged no table
AppsKey == <<"mem", "applications_raw", 1>>
ApplicationsId == IF apps = EmptyDF THEN NoKey ELSE AppsKey

InitFB ==
    /\ apps \in AppsTables \cup {EmptyDF}
    /\ store = "mem"
    /\ artStore = IF apps = EmptyDF THEN <<>> ELSE <<[key |-> AppsKey, obj |-> apps]>>
    /\ pc = "fb_ready"
    /\ feats = EmptyDF
    /\ timeframe = NULL
    /\ errors = <<>>
    /\ pfRes = NoPf
    /\ agRes = NoAg
    /\ fcIn = EmptyDF
    /\ fcPerm = EmptyDF
    /\ agFirst = NoAg
    /\ fbRes = NoFb
    /\ runs = <<>>

\* main.py lines 228-242
DqAndFe ==
    /\ pc = "fb_ready"
    /\ LET r == dq_and_fe(store, artStore, ApplicationsId)
       IN  /\ fbRes' = r
           /\ artStore' = dq_and_fe_store(store, artStore, ApplicationsId, r)
           /\ errors' = IF r.raised THEN Append(errors, "dq_and_fe exception") ELSE errors
    /\ pc' = "fb_done"
    /\ UNCHANGED <<feats, timeframe, store, pfRes, agRes, fcIn, fcPerm, agFirst, apps, runs>>

\* dq_and_fe called without a handle and with the raw rows under a keyword:
\* the signature (line 8) has no row-list parameter, a further keyword lands
\* in **kwargs, which the body never reads
dq_and_fe_with_rows(st, arts, applications_id, rows) ==
    dq_and_fe(st, arts, applications_id)

DqAndFeRows ==
    /\ pc = "fb_ready"
    /\ LET r == dq_and_fe_with_rows(store, artStore, NoKey, apps)
       IN  /\ fbRes' = r
           /\ artStore' = dq_and_fe_store(store, artStore, NoKey, r)
           /\ errors' = IF r.raised THEN Append(errors, "dq_and_fe exception") ELSE errors
    /\ pc' = "fb_rows_done"
    /\ UNCHANGED <<feats, timeframe, store, pfRes, agRes, fcIn, fcPerm, agFirst, apps, runs>>

NextFB == DqAndFe \/ DqAndFeRows

SpecFB == InitFB /\ [][NextFB]_vars

\* ------------------------------------------------------------------------
\* UI formatter: Tools/UI_Packager_persist.py
\* ------------------------------------------------------------------------
DefaultInsights == <<"Insights unavailable", DASH, DASH>>   \* main.py lines 283, 307
NoAnomalies == "No further anomalies detected."             \* line 87
PeriodNumber(p) == CHOOSE i \in 1..12 : PeriodLabel(i) = p       \* _pkey, lines 98-102

\* lines 81-88: the insights handed over, padded to three lines
PadInsights(ins) ==
    [k \in 1..3 |-> IF k <= Len(ins) THEN ins[k] ELSE NoAnomalies]

\* lines 92-112: expected summed per period, periods in P-number order
TrendOf(agg) ==
    LET periods == SortRanked({<<PeriodNumber(agg[i].period), agg[i].period>> : i \in 1..Len(agg)})
    IN  [labels |-> periods,
         series |-> << [name |-> "Expected",
                        data |-> [k \in 1..Len(periods) |->
                                     SumSeq([i \in 1..Len(agg) |->
                                         IF agg[i].period = periods[k] THEN agg[i].expected ELSE 0])]] >>]

\* main.py lines 303-318: the payload returned when the formatter raises
UiDefault(msg) ==
    [raised |-> TRUE,
     forecastResponse |-> [cards |-> ZeroCards, drivers |-> <<>>, insights |-> DefaultInsights,
                           generatedAt |-> NULL],
     forecastTable |-> <<>>,
     analyticsData |-> EmptyAnalytics,
     errorMsg |-> msg]

\* lines 7-139; call is the record of keyword arguments
ui_pack_and_persist(st, arts, call) ==
    LET ld == LoadArtifact(st, arts, call.forecasts_agg_id)
        a0 == IF ld.kind = "df" THEN ld.df.rows ELSE <<>>
        agg == IF a0 = <<>> /\ call.forecasts_agg_data # <<>> THEN call.forecasts_agg_data ELSE a0
    IN  IF ld.kind = "none" THEN UiDefault(<<"ui_pack_and_persist exception">>)  \* agg_df.empty on None
        ELSE [raised |-> FALSE,
              forecastResponse |->
                  [cards |-> call.cards,
                   drivers |-> IF call.drivers = <<>> THEN <<NoDrivers>> ELSE call.drivers,
                   insights |-> PadInsights(call.insights),
                   trend |-> TrendOf(agg),
                   generatedAt |-> "utcnow"],
              forecastTable |-> agg,
              analyticsData |-> call.analytics,
              errorMsg |-> call.errorMsg]

\* lines 131-137: the snapshot of the payload saved under a new handle
ui_pack_and_persist_store(st, arts, res) ==
    IF res.raised THEN arts
    ELSE SaveArtifact(st, arts, "ui_payload_latest",
                      [cols |-> {"forecastResponse", "forecastTable", "analyticsData", "errorMsg"},
                       rows |-> <<res>>])

\* ------------------------------------------------------------------------
\* /run requests against the one artifact store (main.py lines 146-320)
\* ------------------------------------------------------------------------
RunIds == {1, 2}
Stages == <<"ingestion", "feature_builder", "forecast_engine", "aggregator", "ui_formatter">>
StageNumber(stage) == CHOOSE i \in 1..5 : Stages[i] = stage

StageAfterAbortOnFailure(stage, failed) ==
    IF failed \/ StageNumber(stage) = 5 THEN "returned" ELSE Stages[StageNumber(stage) + 1]

\* the statement that follows a stage's try / except: the next stage, whether
\* the stage returned or raised
StageAfter(stage, failed) ==
    IF StageNumber(stage) = 5 THEN "returned" ELSE Stages[StageNumber(stage) + 1]

\* the applications tab of the sheet a request names
SheetRowChoices ==
    {AppsRow(<<Jan2024>>, "S1", "NY", Num(10)),
     AppsRow(<<Jan2024 + 1>>, "S2", "CA", Num(20))}
SheetTables ==
    {IF rs = <<>> THEN EmptyDF ELSE [cols |-> FeatCols, rows |-> rs] :
        rs \in SeqsUpTo(SheetRowChoices, MaxSheet)}

\* a request: its secret header, what the sheet fetch does, the tab it reads
\* (requests come without a timeframe parameter)
RunInputs ==
    {[authorized |-> FALSE, sheet |-> "ok", apps |-> EmptyDF, timeframe |-> NULL]}
    \cup {[authorized |-> TRUE, sheet |-> k, apps |-> EmptyDF, timeframe |-> NULL] :
              k \in {"not_ok", "exception"}}
    \cup {[authorized |-> TRUE, sheet |-> "ok", apps |-> t, timeframe |-> tf] :
              t \in SheetTables, tf \in {NULL}}

\* main.py line 179: str(params.get("timeframe") or "next_quarter").lower()
RunTimeframe(tf) == IF tf = NULL THEN "next_quarter" ELSE Lower(tf)

\* main.py lines 291-300: the keyword arguments of the ui_pack_and_persist call
UiCall(ag, errs) ==
    [forecasts_agg_id |-> ag.forecasts_agg,
     forecasts_agg_data |-> ag.forecasts_agg_data,
     cards |-> ag.cards,
     drivers |-> ag.drivers,
     analytics |-> ag.analytics,
     insights |-> IF ag.raised THEN DefaultInsights ELSE <<>>,
     errorMsg |-> errs]

NewRun(in) ==
    [input |-> in, trace |-> <<>>, errors |-> <<>>,
     applications_id |-> NoKey, dq |-> NoFb, pf |-> NoPf, ag |-> NoAg,
     call |-> UiCall(NoAg, <<>>), payload |-> UiDefault(<<>>)]

InitRuns ==
    /\ runs \in [RunIds -> {NewRun(in) : in \in RunInputs}]
    /\ store = "mem"
    /\ artStore = <<>>
    /\ pc = [r \in RunIds |-> "request"]
    /\ feats = EmptyDF
    /\ timeframe = NULL
    /\ errors = <<>>
    /\ pfRes = NoPf
    /\ agRes = NoAg
    /\ fcIn = EmptyDF
    /\ fcPerm = EmptyDF
    /\ agFirst = NoAg
    /\ apps = EmptyDF
    /\ fbRes = NoFb

RunRest == <<feats, timeframe, store, errors, pfRes, agRes, fcIn, fcPerm, agFirst, apps, fbRes>>

\* one stage of request r done: its results, the stage in the trace, an error
\* message when it failed, and on to what follows
Advance(r, stage, failed, msg, upd) ==
    /\ runs' = [runs EXCEPT ![r] =
                   [upd EXCEPT !.trace = Append(@, stage),
                               !.errors = IF failed THEN Append(@, msg) ELSE @]]
    /\ pc' = [pc EXCEPT ![r] = StageAfter(stage, failed)]

\* lines 153-156: a request without the secret is turned away
Reject(r) ==
    /\ pc[r] = "request"
    /\ ~runs[r].input.authorized
    /\ pc' = [pc EXCEPT ![r] = "rejected"]
    /\ UNCHANGED <<runs, artStore, RunRest>>

\* lines 214-226 (GoogleSheetsFetch.py lines 137-276, one tab)
SheetsFetch(r) ==
    /\ pc[r] = "request"
    /\ runs[r].input.authorized
    /\ IF runs[r].input.sheet = "ok"
       THEN /\ Advance(r, "ingestion", FALSE, "",
                       [runs[r] EXCEPT !.applications_id = SaveKey(store, artStore, "applications_raw")])
            /\ artStore' = SaveArtifact(store, artStore, "applications_raw", runs[r].input.apps)
       ELSE /\ Advance(r, "ingestion", TRUE,
                       IF runs[r].input.sheet = "not_ok" THEN "sheets_fetch_stage error"
                       ELSE "sheets_fetch_stage exception",
                       runs[r])
            /\ artStore' = artStore
    /\ UNCHANGED RunRest

\* lines 228-242
FeatureBuilder(r) ==
    /\ pc[r] = "feature_builder"
    /\ LET res == dq_and_fe(store, artStore, runs[r].applications_id)
       IN  /\ Advance(r, "feature_builder", res.raised, "dq_and_fe exception",
                      [runs[r] EXCEPT !.dq = res])
           /\ artStore' = IF res.raised THEN artStore
                          ELSE dq_and_fe_store(store, artStore, runs[r].applications_id, res)
    /\ UNCHANGED RunRest

\* lines 240-241: dq_res.get("features"), dq_res.get("features_data")
RunFeaturesId(run) == IF run.dq.raised THEN NoKey ELSE run.dq.features
RunFeaturesData(arts, run) ==
    IF run.dq.raised \/ run.dq.features_data = <<>> THEN EmptyDF
    ELSE [cols |-> LoadArtifact("mem", arts, run.dq.features).df.cols,
          rows |-> run.dq.features_data]

\* lines 244-261
ForecastEngine(r) ==
    /\ pc[r] = "forecast_engine"
    /\ LET res == plan_and_forecast(store, artStore, RunFeaturesId(runs[r]),
                                    RunTimeframe(runs[r].input.timeframe),
                                    RunFeaturesData(artStore, runs[r]))
       IN  /\ Advance(r, "forecast_engine", res.raised, "plan_and_forecast exception",
                      [runs[r] EXCEPT !.pf = res])
           /\ artStore' = plan_and_forecast_store(store, artStore, RunFeaturesId(runs[r]), res)
    /\ UNCHANGED RunRest

\* lines 263-285
Aggregator(r) ==
    /\ pc[r] = "aggregator"
    /\ LET res == aggregate_and_drivers(store, artStore, runs[r].pf.forecasts_raw,
                                        RunFeaturesId(runs[r]), runs[r].pf.forecasts_raw_data,
                                        RunFeaturesData(artStore, runs[r]))
       IN  /\ Advance(r, "aggregator", res.raised, "aggregate_and_drivers exception",
                      [runs[r] EXCEPT !.ag = res])
           /\ artStore' = aggregate_and_drivers_store(store, artStore, runs[r].pf.forecasts_raw,
                                                      RunFeaturesId(runs[r]),
                                                      runs[r].pf.forecasts_raw_data, res)
    /\ UNCHANGED RunRest

\* lines 287-320: the formatter is called, and its payload (or the default
\* payload when it raised) is returned
UiFormatter(r) ==
    /\ pc[r] = "ui_formatter"
    /\ LET call == UiCall(runs[r].ag, runs[r].errors)
           res == ui_pack_and_persist(store, artStore, call)
       IN  /\ Advance(r, "ui_formatter", FALSE, "",
                      [runs[r] EXCEPT !.call = call, !.payload = res])
           /\ artStore' = ui_pack_and_persist_store(store, artStore, res)
    /\ UNCHANGED RunRest

RunStep(r) ==
    \/ Reject(r)
    \/ SheetsFetch(r)
    \/ FeatureBuilder(r)
    \/ ForecastEngine(r)
    \/ Aggregator(r)
    \/ UiFormatter(r)

NextRuns == \E r \in RunIds : RunStep(r)

SpecRuns == InitRuns /\ [][NextRuns]_vars

\* the step of request r as it shows in pc: on to the statement that follows
\* (every step of r is one, and it can be taken whenever r has not ended)
Proceed(r) ==
    /\ pc[r] \notin {"rejected", "returned"}
    /\ pc' = [pc EXCEPT ![r] =
                 IF @ # "request" THEN StageAfter(@, FALSE)
                 ELSE IF runs[r].input.authorized THEN StageAfter("ingestion", FALSE)
                 ELSE "rejected"]

\* a request handler runs on: between its statements it waits for nothing
SpecRunsFair == SpecRuns /\ \A r \in RunIds : WF_pc(Proceed(r))

\* ========================================================================
\* Properties
\* ========================================================================
Planned == pc \in {"planned", "done"}
FcRows == pfRes.forecasts_raw_data.rows
AggRows == agRes.forecasts_agg_data

\* horizon of a timeframe, as the spec tabulates it
SpecHorizon(tf) ==
    IF tf \in {"next_6_months"} THEN 6
    ELSE IF tf \in {"next_year", "NEXT_YEAR"} THEN 12
    ELSE 3

\* the series of the input table and their history, read off the input rows
ValidRows(f) == {i \in 1..Len(f.rows) : "date" \in f.cols /\ f.rows[i].date # NaT}
KeyOfRow(r) == <<AsTypeStr(r.scheme_id), AsTypeStr(r.geo_code)>>
AllSeries(f) == {KeyOfRow(f.rows[i]) : i \in 1..Len(f.rows)}
DatedSeries(f) == {KeyOfRow(f.rows[i]) : i \in ValidRows(f)}
SeriesMonths(f, key) == {f.rows[i].date[1] : i \in {j \in ValidRows(f) : KeyOfRow(f.rows[j]) = key}}
FirstMonth(f, key) == CHOOSE m \in SeriesMonths(f, key) : \A n \in SeriesMonths(f, key) : m <= n
LastMonth(f, key) == CHOOSE m \in SeriesMonths(f, key) : \A n \in SeriesMonths(f, key) : n <= m
HistoryPoints(f, key) ==
    IF SeriesMonths(f, key) = {} THEN 0 ELSE LastMonth(f, key) - FirstMonth(f, key) + 1
CountOf(c) == IF c.t = "num" THEN c.n * Scale ELSE IF c.t = "frac" THEN c.n ELSE 0
MonthTotal(f, key, m) ==
    SumSeq([i \in 1..Len(f.rows) |->
        IF i \in ValidRows(f) /\ KeyOfRow(f.rows[i]) = key /\ f.rows[i].date[1] = m
        THEN CountOf(f.rows[i].apps_count) ELSE 0])
RowsOfSeries(key) == SelectSeq(FcRows, LAMBDA r : r.series_id = <<key[1], key[2]>>)
PlanOfSeries(key) == SelectSeq(pfRes.model_plan, LAMBDA e : e.series_id = <<key[1], key[2]>>)
NonNeg(x) == IF x < 0 THEN 0 ELSE x

\* ---- C1 -----------------------------------------------------------------
InputYhatSum(fc) ==
    SumSeq([i \in 1..Len(fc.rows) |->
        IF "yhat" \in fc.cols /\ fc.rows[i].yhat.t = "num" THEN fc.rows[i].yhat.n ELSE 0])

\* C1: for every list of forecast rows given to aggregate_and_drivers, the sum
\* of `expected` over the returned aggregate rows equals the sum of yhat over
\* the input rows (a missing or non-numeric yhat counting as 0).
C1_SumPreserved ==
    (pc \in {"agg_done", "agg_rerun"} /\ ~agRes.raised) =>
        SumSeq([k \in 1..Len(AggRows) |-> AggRows[k].expected]) = InputYhatSum(fcPerm)

\* ---- C2 -----------------------------------------------------------------
\* C2: running aggregate_and_drivers on any permutation of the same forecast
\* rows (with or without a period column) returns identical aggregate rows
\* and identical cards.
C2_OrderIndependent ==
    pc = "agg_rerun" =>
        /\ agRes.forecasts_agg_data = agFirst.forecasts_agg_data
        /\ agRes.cards = agFirst.cards

\* ---- C3 -----------------------------------------------------------------
\* C3: every series gets exactly one strategy, recorded in its model plan entry
\* and in each of its forecast rows: seasonal-naive iff hp >= 18, 3-month
\* moving average iff 3 <= hp < 18, last-value iff hp < 3, hp being the number
\* of monthly buckets of the series.
C3_StrategyByHistory ==
    (Planned /\ ~pfRes.raised) =>
        \A key \in DatedSeries(feats) :
            LET hp == HistoryPoints(feats, key)
                plan == PlanOfSeries(key)
            IN  /\ Len(plan) = 1
                /\ plan[1].history_points = hp
                /\ plan[1].model \in {"SeasonalNaive", "MovingAverage-3", "LastValue"}
                /\ (plan[1].model = "SeasonalNaive" <=> hp >= 18)
                /\ (plan[1].model = "MovingAverage-3" <=> (3 <= hp /\ hp < 18))
                /\ (plan[1].model = "LastValue" <=> hp < 3)
                /\ RowsOfSeries(key) # <<>>
                /\ \A i \in 1..Len(RowsOfSeries(key)) :
                       /\ RowsOfSeries(key)[i].model = plan[1].model
                       /\ RowsOfSeries(key)[i].history_points = hp

C3_Witness ==
    /\ pc = "planned" /\ ~pfRes.raised
    /\ \E key \in DatedSeries(feats) :
          /\ HistoryPoints(feats, key) = 18
          /\ PlanOfSeries(key)[1].model = "SeasonalNaive"
          /\ RowsOfSeries(key)[1].model = "SeasonalNaive"

\* ---- C4 -----------------------------------------------------------------
\* C4: for every series with hp >= 18 and every horizon step k whose target
\* month (k months after the last historical month) has the same calendar
\* month one year earlier inside the monthly history, yhat of step k is that
\* month's historical sum, clamped to be non-negative.
C4_SeasonalNaive ==
    (Planned /\ ~pfRes.raised) =>
        \A key \in DatedSeries(feats) :
            HistoryPoints(feats, key) >= 18 =>
                \A k \in 1..Len(RowsOfSeries(key)) :
                    LET ly == LastMonth(feats, key) + k - 12
                    IN  (FirstMonth(feats, key) <= ly /\ ly <= LastMonth(feats, key)) =>
                            /\ RowsOfSeries(key)[k].period = PeriodLabel(k)
                            /\ RowsOfSeries(key)[k].yhat = Num(NonNeg(MonthTotal(feats, key, ly)))

C4_Witness ==
    /\ pc = "planned" /\ ~pfRes.raised
    /\ \E key \in DatedSeries(feats) :
          /\ HistoryPoints(feats, key) >= 18
          /\ Len(RowsOfSeries(key)) = 12
          /\ MonthTotal(feats, key, LastMonth(feats, key)) = 20 * Scale
          /\ RowsOfSeries(key)[12].yhat = Num(20 * Scale)
          /\ RowsOfSeries(key)[11].yhat = Num(0)

\* ---- C5 -----------------------------------------------------------------
SpecPeriods == <<"P1", "P2", "P3", "P4", "P5", "P6", "P7", "P8", "P9", "P10", "P11", "P12">>
RegionExpected(g) ==
    SumSeq([k \in 1..Len(AggRows) |-> IF AggRows[k].region = g THEN AggRows[k].expected ELSE 0])
OnlySeriesOfRegion(key) == \A other \in DatedSeries(feats) : other[2] = key[2] => other = key
ShortSeries == {key \in DatedSeries(feats) : HistoryPoints(feats, key) < 3}
LatestTotal(key) == MonthTotal(feats, key, LastMonth(feats, key))

\* the two-row feature table of the end-to-end scenario, with next_quarter
Scenario5 ==
    /\ feats = [cols |-> FeatCols,
                rows |-> << FeatRow(<<Jan2024>>, "S1", "NY", Num(10)),
                            FeatRow(<<Jan2024 + 1>>, "S1", "NY", Num(20)) >>]
    /\ timeframe = "next_quarter"
Scenario5Rows ==
    [i \in 1..3 |->
        [series_id |-> <<"S1", "NY">>, scheme_id |-> "S1", geo_code |-> "NY",
         period |-> SpecPeriods[i], forecast_month |-> <<2024, 2 + i>>,
         yhat |-> Num(20 * Scale), yhat_low |-> Num(18 * Scale), yhat_high |-> Num(22 * Scale),
         model |-> "LastValue", history_points |-> 2]]
Scenario5Holds ==
    Scenario5 =>
        /\ (Planned => (~pfRes.raised /\ FcRows = Scenario5Rows))
        /\ (pc = "done" =>
               /\ ~agRes.raised
               /\ RegionExpected("NY") = 60 * Scale
               /\ agRes.cards.total_forecast = 60 * Scale)

\* the rows of a short series, given the value v they are to repeat (the band
\* is 0.9 v and 1.1 v to 3 decimals)
LastValueRows(key, v) ==
    LET rows == RowsOfSeries(key)
    IN  /\ Len(rows) = SpecHorizon(timeframe)
        /\ \A i \in 1..Len(rows) :
              /\ rows[i].model = "LastValue"
              /\ rows[i].yhat = Num(v)
              /\ rows[i].yhat_low = Num(Round3(9 * v, 10))
              /\ rows[i].yhat_high = Num(Round3(11 * v, 10))
LastValueTotal(key, v) ==
    OnlySeriesOfRegion(key) => RegionExpected(key[2]) = SpecHorizon(timeframe) * v

C6_EmptyFeatures ==
    (Planned /\ DFEmpty(feats)) =>
        /\ ~pfRes.raised
        /\ pfRes.model_plan = <<>>
        /\ Len(FcRows) = SpecHorizon(timeframe)
        /\ \A i \in 1..Len(FcRows) :
              /\ FcRows[i].series_id = <<DASH>>
              /\ FcRows[i].period = SpecPeriods[i]
              /\ FcRows[i].model = "ZeroForecast"
              /\ FcRows[i].history_points = 0
              /\ FcRows[i].yhat = Num(0)
              /\ FcRows[i].yhat_low = Num(0)
              /\ FcRows[i].yhat_high = Num(0)

C6_Witness ==
    /\ pc = "planned" /\ DFEmpty(feats) /\ timeframe = "next_6_months"
    /\ Len(FcRows) = 6
    /\ FcRows[6].period = "P6" /\ FcRows[6].model = "ZeroForecast"

\* ---- C7 -----------------------------------------------------------------
\* C7: empty feature table, horizon next_year: the 12 zero rows with the
\* sentinel series_id, handed to the Aggregator in memory with no feature rows,
\* give an empty aggregate table, total_forecast 0, confidence_range [0, 0],
\* series_count 0 and drivers exactly ["Drivers unavailable"].
C7_EmptyEndToEnd ==
    (pc = "done" /\ DFEmpty(feats) /\ timeframe = "next_year" /\ store = "absent") =>
        /\ Len(FcRows) = 12
        /\ \A i \in 1..Len(FcRows) : FcRows[i].series_id = <<DASH>> /\ FcRows[i].yhat = Num(0)
        /\ ~agRes.raised
        /\ agRes.forecasts_agg_data = <<>>
        /\ agRes.cards = [total_forecast |-> 0, confidence_range |-> <<0, 0>>, series_count |-> 0]
        /\ agRes.drivers = <<"Drivers unavailable">>

\* ---- C8 -----------------------------------------------------------------
\* C8: every series key that occurs in a non-empty feature table gets exactly
\* h forecast rows and one plan entry; a series none of whose rows has a
\* usable date gets h zero-valued Last-Value rows.
C8_EverySeriesForecast ==
    (Planned /\ ~DFEmpty(feats) /\ feats.cols = FeatCols) =>
        /\ ~pfRes.raised
        /\ \A key \in AllSeries(feats) :
              /\ Len(RowsOfSeries(key)) = SpecHorizon(timeframe)
              /\ Len(PlanOfSeries(key)) = 1
              /\ HistoryPoints(feats, key) = 0 =>
                    \A i \in 1..Len(RowsOfSeries(key)) :
                        /\ RowsOfSeries(key)[i].yhat = Num(0)
                        /\ RowsOfSeries(key)[i].model = "LastValue"

\* ---- C9 -----------------------------------------------------------------
\* C9: plan_and_forecast never raises: for every non-empty feature table, also
\* one without the date or the apps_count column, it returns forecast rows and
\* a model plan.
C9_NeverRaises ==
    (Planned /\ ~DFEmpty(feats)) => ~pfRes.raised

\* ---- C10 ----------------------------------------------------------------
FeatsLoadFails == LoadArtifact(store, artStore, FeaturesId(store)).kind \in {"raise", "none"}
ForecastsLoadFails ==
    LoadArtifact(store, artStore, ForecastsRawId).kind \in {"raise", "none"}

\* C10: when loading a table handle fails (the store raises, or hands back
\* nothing for the handle), the stage goes on as if an empty table had been
\* loaded and returns what it returns without the handle; nothing is raised.
C10_LoadFailureIsEmpty ==
    /\ (Planned /\ FeatsLoadFails) =>
          pfRes = plan_and_forecast("absent", <<>>, NoKey, timeframe, feats)
    /\ (pc = "done" /\ ForecastsLoadFails) =>
          /\ ~agRes.raised
          /\ agRes.forecasts_agg_data =
                aggregate_and_drivers("absent", <<>>, NoKey, NoKey, ForecastsRawData, feats).forecasts_agg_data

\* ---- C12 ----------------------------------------------------------------
\* C12: after every aggregate_and_drivers call cards.total_forecast is the sum
\* of `expected` over the returned aggregate rows and cards.confidence_range
\* is [sum of `low`, sum of `high`] over them; with no forecast rows all three
\* are 0.
C12_CardsAreSums ==
    (pc \in {"agg_done", "agg_rerun"} /\ ~agRes.raised) =>
        /\ agRes.cards.total_forecast = SumSeq([k \in 1..Len(AggRows) |-> AggRows[k].expected])
        /\ agRes.cards.confidence_range =
              << SumSeq([k \in 1..Len(AggRows) |-> AggRows[k].low]),
                 SumSeq([k \in 1..Len(AggRows) |-> AggRows[k].high]) >>
        /\ fcPerm.rows = <<>> =>
              /\ agRes.cards.total_forecast = 0
              /\ agRes.cards.confidence_range = <<0, 0>>

C12_Witness ==
    /\ pc = "agg_done" /\ ~agRes.raised
    /\ Len(AggRows) = 2
    /\ AggRows[1].expected = 10 /\ AggRows[2].expected = 20
    /\ agRes.cards.total_forecast = 30
    /\ agRes.cards.confidence_range = <<27, 33>>

\* ---- C13 ----------------------------------------------------------------
\* C13: every forecast row of plan_and_forecast has 0 <= yhat_low <= yhat <=
\* yhat_high, yhat >= 0 (also for negative monthly sums),
\* yhat_low = max(0, 0.9 * yhat) and yhat_high = 1.1 * yhat.
C13_BandAroundYhat ==
    (Planned /\ ~pfRes.raised) =>
        \A i \in 1..Len(FcRows) :
            LET yhat == FcRows[i].yhat.n
                low  == FcRows[i].yhat_low.n
                high == FcRows[i].yhat_high.n
            IN  /\ 0 <= low /\ low <= yhat /\ yhat <= high
                /\ 10 * low = NonNeg(9 * yhat)
                /\ 10 * high = 11 * yhat

\* ---- C14 ----------------------------------------------------------------
OutSeries == {FcRows[i].series_id : i \in 1..Len(FcRows)}
RowsOfId(sid) == SelectSeq(FcRows, LAMBDA r : r.series_id = sid)

\* C14: h is 3 for next_quarter, 6 for next_6_months, 12 for next_year and 3
\* for a missing or unrecognised timeframe; every series of the output has
\* exactly h rows, labelled P1..Ph, each once, in step order.
C14_HorizonRows ==
    (Planned /\ ~pfRes.raised) =>
        \A sid \in OutSeries :
            /\ Len(RowsOfId(sid)) = SpecHorizon(timeframe)
            /\ \A k \in 1..Len(RowsOfId(sid)) : RowsOfId(sid)[k].period = SpecPeriods[k]

C14_Witness ==
    /\ pc = "planned" /\ ~pfRes.raised /\ timeframe = "next_6_months"
    /\ Cardinality(OutSeries) = 2
    /\ \A sid \in OutSeries : Len(RowsOfId(sid)) = 6 /\ RowsOfId(sid)[6].period = "P6"

\* ---- C15 ----------------------------------------------------------------
YmOf(m) == <<m \div 12, (m % 12) + 1>>
NextYm(ym) == IF ym[2] = 12 THEN <<ym[1] + 1, 1>> ELSE <<ym[1], ym[2] + 1>>
RECURSIVE YmAfter(_, _)
YmAfter(ym, k) == IF k = 0 THEN ym ELSE NextYm(YmAfter(ym, k - 1))

\* C15: for every series with history and every step k in 1..h the row Pk has
\* forecast_month equal to the YYYY-MM label of the k-th calendar month after
\* the series' last historical month (consecutive, increasing, rolling over
\* the year boundary).
C15_ForecastMonth ==
    (Planned /\ ~pfRes.raised) =>
        \A key \in DatedSeries(feats) :
            /\ Len(RowsOfSeries(key)) = SpecHorizon(timeframe)
            /\ \A k \in 1..Len(RowsOfSeries(key)) :
                  /\ RowsOfSeries(key)[k].period = SpecPeriods[k]
                  /\ RowsOfSeries(key)[k].forecast_month =
                        YmAfter(YmOf(LastMonth(feats, key)), k)

C15_Witness ==
    /\ pc = "planned" /\ ~pfRes.raised
    /\ \E key \in DatedSeries(feats) :
          /\ LastMonth(feats, key) = Jan2024 + 2
          /\ Len(RowsOfSeries(key)) = 12
          /\ RowsOfSeries(key)[9].forecast_month = <<2024, 12>>
          /\ RowsOfSeries(key)[10].forecast_month = <<2025, 1>>

\* ---- C19 ----------------------------------------------------------------
InputSeriesIds == {fcPerm.rows[i].series_id : i \in 1..Len(fcPerm.rows)} \ {NoSeries}
InputRegions ==
    {IF "geo_code" \in fcPerm.cols THEN AsTypeStr(fcPerm.rows[i].geo_code)
     ELSE IF "series_id" \in fcPerm.cols THEN GeoOfSeriesId(fcPerm.rows[i].series_id)
     ELSE DASH : i \in 1..Len(fcPerm.rows)}

\* C19 as stated: series_count is the number of distinct series identifiers
\* in the forecast rows whenever they have a series_id column, and the number
\* of distinct regions only when they have none.
C19_SeriesCountByColumn ==
    (pc \in {"agg_done", "agg_rerun"} /\ ~agRes.raised) =>
        agRes.cards.series_count =
            IF "series_id" \in fcPerm.cols THEN Cardinality(InputSeriesIds)
            ELSE Cardinality(InputRegions)

\* C19 as amended: the number of distinct series identifiers when the rows
\* have a series_id column holding at least one identifier, otherwise the
\* number of distinct regions (0 with no rows).
C19_SeriesCount ==
    (pc \in {"agg_done", "agg_rerun"} /\ ~agRes.raised) =>
        agRes.cards.series_count =
            IF "series_id" \in fcPerm.cols /\ InputSeriesIds # {}
            THEN Cardinality(InputSeriesIds)
            ELSE Cardinality(InputRegions)

C19_Witness ==
    /\ pc = "agg_done" /\ ~agRes.raised
    /\ "series_id" \in fcPerm.cols
    /\ Cardinality(InputSeriesIds) = 2 /\ Cardinality(InputRegions) = 1
    /\ agRes.cards.series_count = 2

\* ---- C11 ----------------------------------------------------------------
DatedRows(f) == SelectSeq(f.rows, LAMBDA r : "date" \in f.cols /\ r.date # NaT)
Views == agRes.analytics
HasPieDimension ==
    \/ {"applicant_gender", "income_bracket", "occupation"} \cap feats.cols # {}
    \/ /\ "applicant_age" \in feats.cols
       /\ \E i \in 1..Len(DatedRows(feats)) : DatedRows(feats)[i].applicant_age.t = "num"

\* C11: the four analytics views are independent: for every non-empty feature
\* table a view whose required columns are absent is returned as its empty
\* default, the other views are still computed, and aggregate_and_drivers
\* does not raise.
C11_ViewsIndependent ==
    (pc = "an_done" /\ feats.rows # <<>>) =>
        /\ ~agRes.raised
        /\ ~({"geo_code", "apps_count"} \subseteq feats.cols) => Views.uptake_by_state = EmptyUptake
        /\ ~({"date", "scheme_id", "apps_count"} \subseteq feats.cols) =>
              Views.monthly_trend_multi = EmptyTrend
        /\ ~({"date", "scheme_id", "geo_code", "apps_count", "promo_intensity"} \subseteq feats.cols) =>
              Views.promotions_vs_apps = EmptyPromo
        /\ ~(HasPieDimension /\ "apps_count" \in feats.cols) => Views.demographics_pie = EmptyPie
        /\ DatedRows(feats) # <<>> =>
              /\ {"geo_code", "apps_count"} \subseteq feats.cols =>
                    Len(Views.uptake_by_state.labels) >= 1
              /\ {"date", "scheme_id", "apps_count"} \subseteq feats.cols =>
                    Len(Views.monthly_trend_multi.labels) >= 1
              /\ {"date", "scheme_id", "geo_code", "apps_count", "promo_intensity"} \subseteq feats.cols =>
                    Len(Views.promotions_vs_apps.data) >= 1
              /\ (HasPieDimension /\ "apps_count" \in feats.cols) =>
                    Len(Views.demographics_pie.labels) >= 1

\* ---- C20 ----------------------------------------------------------------
PromoTrigger ==
    /\ "promo_intensity" \in feats.cols
    /\ \E i \in 1..Len(DatedRows(feats)) :
          DatedRows(feats)[i].promo_intensity.t = "num" /\ DatedRows(feats)[i].promo_intensity.n > 0
SeasonalTrigger ==
    /\ DatedRows(feats) # <<>>
    /\ {"month", "quarter"} \cap feats.cols # {}
BandWidth(r) ==
    Abs((IF "yhat_high" \in fcIn.cols /\ r.yhat_high.t = "num" THEN r.yhat_high.n ELSE 0)
        - (IF "yhat_low" \in fcIn.cols /\ r.yhat_low.t = "num" THEN r.yhat_low.n ELSE 0))
BandTrigger == \E i \in 1..Len(fcIn.rows) : BandWidth(fcIn.rows[i]) > 0
Notes == {agRes.drivers[i] : i \in 1..Len(agRes.drivers)}

\* C20: the driver list a call returns has between 1 and 3 entries: one note
\* for each trigger that holds (promotional activity in the dated feature
\* rows, seasonal columns in them, non-zero average band width of the
\* forecasts), and the single note "Drivers unavailable" iff no trigger holds,
\* never together with another note.
C20_DriverNotes ==
    (pc = "an_done" /\ ~agRes.raised) =>
        /\ Len(agRes.drivers) \in 1..3
        /\ Cardinality(Notes) = Len(agRes.drivers)
        /\ Notes \subseteq {PromoNote, SeasonalNote, BandNote, NoDrivers}
        /\ (PromoNote \in Notes) <=> PromoTrigger
        /\ (SeasonalNote \in Notes) <=> SeasonalTrigger
        /\ (BandNote \in Notes) <=> BandTrigger
        /\ (NoDrivers \in Notes) <=> ~(PromoTrigger \/ SeasonalTrigger \/ BandTrigger)
        /\ (NoDrivers \in Notes) => agRes.drivers = <<NoDrivers>>

C20_Witness ==
    /\ pc = "an_done" /\ ~agRes.raised
    /\ PromoTrigger /\ SeasonalTrigger /\ BandTrigger
    /\ agRes.drivers = <<PromoNote, SeasonalNote, BandNote>>

\* ---- C16 ----------------------------------------------------------------
Built == pc = "fb_done" /\ ~fbRes.raised
Feat == fbRes.features_data
SameSeries(a, b) == a.scheme_id = b.scheme_id /\ a.geo_code = b.geo_code
RowLeq(a, b) ==
    \/ StrRank(a.scheme_id) < StrRank(b.scheme_id)
    \/ /\ a.scheme_id = b.scheme_id
       /\ \/ StrRank(a.geo_code) < StrRank(b.geo_code)
          \/ a.geo_code = b.geo_code /\ a.date[1] <= b.date[1]
EarlierOfSeries(i) == {j \in 1..(i - 1) : SameSeries(Feat[j], Feat[i])}

\* C16: the rows of the feature table are in ascending (scheme_id, geo_code,
\* date) order, and lag_1 of a row is the apps_count of the immediately
\* preceding row of the same series in that order, 0 for the first row of a
\* series.
C16_SortedWithLag ==
    Built =>
        /\ \A i, j \in 1..Len(Feat) : i < j => RowLeq(Feat[i], Feat[j])
        /\ \A i \in 1..Len(Feat) :
              IF EarlierOfSeries(i) = {} THEN Feat[i].lag_1 = Num(0)
              ELSE /\ (i - 1) \in EarlierOfSeries(i)
                   /\ Feat[i].lag_1 = Feat[i - 1].apps_count

C16_Witness ==
    /\ Built /\ Len(Feat) = 3
    /\ apps.rows[1].geo_code = "NY" /\ Feat[1].geo_code = "CA"
    /\ Feat[1].lag_1 = Num(0)
    /\ Feat[2].lag_1 = Num(0) /\ Feat[2].apps_count = Num(10)
    /\ Feat[3].lag_1 = Num(10) /\ Feat[3].date = <<Jan2024 + 1>>

\* ---- C17 ----------------------------------------------------------------
CanonCols == {Alias(c) : c \in apps.cols}
Parses(r) == "date" \in CanonCols /\ Len(r.date) = 1
InputKey(r) ==
    <<r.date, IF "scheme_id" \in CanonCols THEN Strip(r.scheme_id) ELSE NULL,
      IF "geo_code" \in CanonCols THEN Strip(r.geo_code) ELSE NULL>>
InputCount(r) == IF "apps_count" \in CanonCols THEN Units(r.apps_count) ELSE 0
InputTotal(k) ==
    SumSeq([i \in 1..Len(apps.rows) |->
        IF Parses(apps.rows[i]) /\ InputKey(apps.rows[i]) = k THEN InputCount(apps.rows[i]) ELSE 0])
FeatKey(r) == <<r.date, r.scheme_id, r.geo_code>>

\* C17: the feature table has exactly one row per (date, series key): input
\* rows that share series key and date are summed into a single row.
C17_OneRowPerDateSeries ==
    Built =>
        /\ \A i, j \in 1..Len(Feat) : FeatKey(Feat[i]) = FeatKey(Feat[j]) => i = j
        /\ \A i \in 1..Len(Feat) : Units(Feat[i].apps_count) = InputTotal(FeatKey(Feat[i]))
        /\ \A i \in 1..Len(apps.rows) :
              Parses(apps.rows[i]) => \E k \in 1..Len(Feat) : FeatKey(Feat[k]) = InputKey(apps.rows[i])

\* ---- C18 ----------------------------------------------------------------
ParsingRows == {i \in 1..Len(apps.rows) : Parses(apps.rows[i])}
KeptAs(r) == <<InputKey(r), InputCount(r)>>
FeatAs(r) == <<FeatKey(r), Units(r.apps_count)>>
DroppedNotes == SelectSeq(fbRes.notes, LAMBDA x : x.kind = "dropped rows")
StoredFeatures == LoadArtifact(store, artStore, fbRes.features)

MA3Series ==
    {key \in DatedSeries(feats) :
        HistoryPoints(feats, key) >= 3 /\ HistoryPoints(feats, key) < 18}
Last3Total(key) ==
    MonthTotal(feats, key, LastMonth(feats, key) - 2)
    + MonthTotal(feats, key, LastMonth(feats, key) - 1)
    + MonthTotal(feats, key, LastMonth(feats, key))

\* C27 as stated: for a MovingAverage-3 series every one of the h forecast
\* rows carries the same yhat, the mean of the last 3 historical monthly sums.
C27_MA3MeanUnclamped ==
    (Planned /\ ~pfRes.raised) =>
        \A key \in MA3Series :
            /\ Len(RowsOfSeries(key)) = SpecHorizon(timeframe)
            /\ \A k \in 1..Len(RowsOfSeries(key)) :
                   3 * RowsOfSeries(key)[k].yhat.n = Last3Total(key)

\* C27: for a MovingAverage-3 series every one of the h forecast rows carries
\* the same yhat, max(0, mean of the last 3 historical monthly sums); the
\* window is the last three months of the history at every step.
C27_MA3Mean ==
    (Planned /\ ~pfRes.raised) =>
        \A key \in MA3Series :
            /\ Len(RowsOfSeries(key)) = SpecHorizon(timeframe)
            /\ \A k \in 1..Len(RowsOfSeries(key)) :
                   /\ RowsOfSeries(key)[k].model = "MovingAverage-3"
                   /\ 3 * RowsOfSeries(key)[k].yhat.n = NonNeg(Last3Total(key))

C27_Witness ==
    /\ pc = "planned" /\ ~pfRes.raised
    /\ \E key \in MA3Series :
          /\ HistoryPoints(feats, key) = 18 - 1
          /\ Last3Total(key) = 20 * Scale
          /\ Len(RowsOfSeries(key)) = 12
          /\ 3 * RowsOfSeries(key)[1].yhat.n = 20 * Scale
          /\ 3 * RowsOfSeries(key)[12].yhat.n = 20 * Scale

\* ---- C28 ----------------------------------------------------------------
\* the monthly history the Forecast Engine builds for a series of the input
History(key) == Resample(NormalizedFeats(feats), key)

\* C28: the monthly history of a series has exactly one bucket per calendar
\* month from the month of its first dated row to the month of its last dated
\* row inclusive; a bucket is the sum of apps_count of the rows in that month
\* (0 for a month without rows), and hp is the number of buckets.
C28_MonthlyHistory ==
    (Planned /\ ~pfRes.raised) =>
        \A key \in DatedSeries(feats) :
            /\ History(key).first = FirstMonth(feats, key)
            /\ History(key).last = LastMonth(feats, key)
            /\ Len(History(key).y) = LastMonth(feats, key) - FirstMonth(feats, key) + 1
            /\ \A k \in 1..Len(History(key).y) :
                   History(key).y[k] = MonthTotal(feats, key, FirstMonth(feats, key) + k - 1)
            /\ Len(PlanOfSeries(key)) = 1
            /\ PlanOfSeries(key)[1].history_points = Len(History(key).y)

C28_Witness ==
    /\ pc = "planned" /\ ~pfRes.raised
    /\ \E key \in DatedSeries(feats) :
          /\ FirstMonth(feats, key) = Jan2024
          /\ LastMonth(feats, key) = Jan2024 + 2
          /\ History(key).y = <<10 * Scale, 0, 10 * Scale>>
          /\ PlanOfSeries(key)[1].history_points = 3

\* ---- C29 ----------------------------------------------------------------
SeasonalSeries == {key \in DatedSeries(feats) : HistoryPoints(feats, key) >= 18}

\* C29: for every SeasonalNaive series and every step k of the horizon, the
\* month one year before the forecast month lies inside the monthly history,
\* so yhat is that month's sum (clamped at 0) and never the moving-average
\* fallback; step 12 repeats the value of the last historical month.
C29_SeasonalLookupInHistory ==
    (Planned /\ ~pfRes.raised) =>
        \A key \in SeasonalSeries :
            /\ Len(RowsOfSeries(key)) = SpecHorizon(timeframe)
            /\ \A k \in 1..Len(RowsOfSeries(key)) :
                   LET ly == LastMonth(feats, key) + k - 12
                   IN  /\ History(key).first <= ly
                       /\ ly <= History(key).last
                       /\ RowsOfSeries(key)[k].model = "SeasonalNaive"
                       /\ RowsOfSeries(key)[k].yhat = Num(NonNeg(MonthTotal(feats, key, ly)))
            /\ Len(RowsOfSeries(key)) = 12 =>
                   RowsOfSeries(key)[12].yhat = Num(NonNeg(LatestTotal(key)))

C29_Witness ==
    /\ pc = "planned" /\ ~pfRes.raised
    /\ timeframe = "next_year"
    /\ \E key \in SeasonalSeries :
          /\ HistoryPoints(feats, key) = 18
          /\ LatestTotal(key) = 20 * Scale
          /\ Last3Total(key) = 20 * Scale
          /\ RowsOfSeries(key)[1].yhat = Num(0)
          /\ RowsOfSeries(key)[12].yhat = Num(20 * Scale)

\* ---- C21 ----------------------------------------------------------------
TrendView == Views.monthly_trend_multi
TrendMonth(l) == l[1] * 12 + l[2] - 1
ObservedMonths == {DatedRows(feats)[i].date[1] : i \in 1..Len(DatedRows(feats))}
ObservedSchemes == {AsTypeStr(DatedRows(feats)[i].scheme_id) : i \in 1..Len(DatedRows(feats))}
SchemeMonthSum(sid, m) ==
    SumSeq([i \in 1..Len(DatedRows(feats)) |->
        IF AsTypeStr(DatedRows(feats)[i].scheme_id) = sid /\ DatedRows(feats)[i].date[1] = m
        THEN CountOf(DatedRows(feats)[i].apps_count) ELSE 0])
TrendComputed ==
    pc = "an_done" /\ ~agRes.raised /\ {"date", "scheme_id", "apps_count"} \subseteq feats.cols
\* the label axis is the ascending, duplicate-free union of the observed
\* months, with one dataset per scheme_id, each as long as the axis
TrendAxis ==
    /\ \A k \in 1..(Len(TrendView.labels) - 1) :
           TrendMonth(TrendView.labels[k]) < TrendMonth(TrendView.labels[k + 1])
    /\ {TrendMonth(TrendView.labels[k]) : k \in 1..Len(TrendView.labels)} = ObservedMonths
    /\ Len(TrendView.datasets) = Cardinality(ObservedSchemes)
    /\ {TrendView.datasets[j].label : j \in 1..Len(TrendView.datasets)} = ObservedSchemes
    /\ \A j \in 1..Len(TrendView.datasets) :
           Len(TrendView.datasets[j].data) = Len(TrendView.labels)
\* v is sum / Scale rounded to the nearest integer, a tie going to the even one
NearestInt(v, sum) ==
    /\ 2 * Abs(v * Scale - sum) <= Scale
    /\ 2 * Abs(v * Scale - sum) = Scale => v % 2 = 0

\* C21 as stated: on that axis a dataset's value is the scheme's apps_count
\* sum for the month, 0 when the scheme has no rows in it.
C21_TrendExactSums ==
    TrendComputed =>
        /\ TrendAxis
        /\ \A j \in 1..Len(TrendView.datasets) : \A k \in 1..Len(TrendView.labels) :
               TrendView.datasets[j].data[k] * Scale =
                   SchemeMonthSum(TrendView.datasets[j].label, TrendMonth(TrendView.labels[k]))

\* C21: the label axis of the monthly trend is the ascending, duplicate-free
\* union of the months observed for any scheme; there is one dataset per
\* scheme_id, every data array has the length of the axis, and a value is the
\* scheme's apps_count sum for the month rounded to an integer, 0 when the
\* scheme has no rows in that month.
C21_TrendOnSharedAxis ==
    TrendComputed =>
        /\ TrendAxis
        /\ \A j \in 1..Len(TrendView.datasets) : \A k \in 1..Len(TrendView.labels) :
               NearestInt(TrendView.datasets[j].data[k],
                          SchemeMonthSum(TrendView.datasets[j].label,
                                         TrendMonth(TrendView.labels[k])))

C21_Witness ==
    /\ TrendComputed
    /\ TrendView.labels = <<month_key(Jan2024), month_key(Jan2024 + 1), month_key(Jan2024 + 2)>>
    /\ TrendView.datasets = << [label |-> "S1", data |-> <<1, 0, 0>>],
                               [label |-> "S2", data |-> <<0, 1, 2>>] >>

\* ---- C22 ----------------------------------------------------------------
PromoView == Views.promotions_vs_apps
PromoComputed ==
    /\ pc = "an_done" /\ ~agRes.raised
    /\ {"date", "scheme_id", "geo_code", "apps_count", "promo_intensity"} \subseteq feats.cols
PairKeys ==
    {<<AsTypeStr(DatedRows(feats)[i].scheme_id), AsTypeStr(DatedRows(feats)[i].geo_code),
       DatedRows(feats)[i].date[1]>> : i \in 1..Len(DatedRows(feats))}
ZeroVariance(field) ==
    \A i, j \in 1..Len(PromoView.data) : PromoView.data[i][field] = PromoView.data[j][field]

PieView == Views.demographics_pie
PieOrder == <<"applicant_gender", "income_bracket", "occupation", "applicant_age">>
NonMissing(r, dim) == IF dim = "applicant_age" THEN r.applicant_age.t = "num" ELSE r[dim] # NULL
HasValue(dim) ==
    /\ dim \in feats.cols
    /\ \E i \in 1..Len(DatedRows(feats)) : NonMissing(DatedRows(feats)[i], dim)
\* position in PieOrder of the first dimension with a non-missing value, 0 when none
FirstWithValue ==
    IF \E k \in 1..4 : HasValue(PieOrder[k])
    THEN CHOOSE k \in 1..4 : HasValue(PieOrder[k]) /\ \A j \in 1..(k - 1) : ~HasValue(PieOrder[j])
    ELSE 0
CategoriesOf(dim) ==
    {PieCategory(DatedRows(feats)[i], dim) :
        i \in {j \in 1..Len(DatedRows(feats)) :
                  dim = "applicant_age" \/ NonMissing(DatedRows(feats)[j], dim)}}

\* C23: the demographics pie is cut by the first dimension, in the order
\* applicant_gender, income_bracket, occupation, applicant_age, that has at
\* least one non-missing value (a present column whose values are all missing
\* is passed over); its categories are those of that dimension, ordered by
\* summed apps_count descending.
C23_PieFirstDimensionWithValue ==
    (pc = "an_done" /\ ~agRes.raised /\ "apps_count" \in feats.cols /\ DatedRows(feats) # <<>>) =>
        /\ FirstWithValue = 0 => PieView = EmptyPie
        /\ FirstWithValue # 0 =>
              /\ {PieView.labels[k] : k \in 1..Len(PieView.labels)}
                     = CategoriesOf(PieOrder[FirstWithValue])
              /\ Len(PieView.data) = Len(PieView.labels)
              /\ \A k \in 1..(Len(PieView.data) - 1) : PieView.data[k] >= PieView.data[k + 1]

\* ---- C24 ----------------------------------------------------------------
\* the store as the run found it, holding the feature table under its handle
StoreAtStart == IF store = "mem" THEN <<[key |-> FeaturesId(store), obj |-> feats]>> ELSE <<>>
HandleLoads(st, arts, key) ==
    LoadArtifact(st, arts, key).kind = "df" /\ ~DFEmpty(LoadArtifact(st, arts, key).df)

\* Forecast Engine: rows and plan are those of the in-memory rows when the
\* handle yields nothing, and those of the loaded table alone when it loads
C24_ForecastEngineDualPath ==
    Planned =>
        IF HandleLoads(store, StoreAtStart, FeaturesId(store))
        THEN /\ pfRes.raised = plan_and_forecast(store, StoreAtStart, FeaturesId(store), timeframe, EmptyDF).raised
             /\ pfRes.forecasts_raw_data =
                   plan_and_forecast(store, StoreAtStart, FeaturesId(store), timeframe, EmptyDF).forecasts_raw_data
        ELSE feats.rows # <<>> =>
             /\ pfRes.raised = plan_and_forecast("absent", <<>>, NoKey, timeframe, feats).raised
             /\ pfRes.forecasts_raw_data =
                   plan_and_forecast("absent", <<>>, NoKey, timeframe, feats).forecasts_raw_data

\* Aggregator: the aggregate rows are those of the in-memory forecast rows
\* when the forecast handle yields nothing
C24_AggregatorDualPath ==
    (pc = "done" /\ ~pfRes.raised /\ pfRes.forecasts_raw_data.rows # <<>>
        /\ LoadArtifact(store, plan_and_forecast_store(store, StoreAtStart, FeaturesId(store), pfRes),
                        pfRes.forecasts_raw).kind # "df") =>
        /\ ~agRes.raised
        /\ agRes.forecasts_agg_data =
              aggregate_and_drivers("absent", <<>>, NoKey, NoKey,
                                    pfRes.forecasts_raw_data, EmptyDF).forecasts_agg_data

\* Feature Builder: without a handle the features are those of the in-memory
\* applications rows, as if the table had been loaded from a handle
C24_FeatureBuilderDualPath ==
    (pc = "fb_rows_done" /\ apps.rows # <<>>) =>
        /\ ~fbRes.raised
        /\ fbRes.features_data =
              dq_and_fe("mem", <<[key |-> AppsKey, obj |-> apps]>>, AppsKey).features_data

\* C24: each of the three core stages takes its input as a table handle or as
\* in-memory rows; when the handle is absent, cannot be loaded or loads an
\* empty table and rows are supplied, the stage computes from the rows; when
\* the handle loads a non-empty table the rows are not used.
C24_DualPath ==
    /\ C24_ForecastEngineDualPath
    /\ C24_AggregatorDualPath
    /\ C24_FeatureBuilderDualPath

\* ---- C25 ----------------------------------------------------------------
Returned(r) == pc[r] = "returned"
\* the keyword arguments of the formatter call carry the aggregate rows, the
\* cards, the driver notes and the analytics bundle of the run
HandsOverAggregatorParts(r) ==
    /\ runs[r].call.forecasts_agg_data = runs[r].ag.forecasts_agg_data
    /\ runs[r].call.cards = runs[r].ag.cards
    /\ runs[r].call.drivers = runs[r].ag.drivers
    /\ runs[r].call.analytics = runs[r].ag.analytics
\* ... and the model plan and the data-quality notes
HandsOverPlanAndNotes(r) ==
    /\ "model_plan" \in DOMAIN runs[r].call
    /\ "dq_notes" \in DOMAIN runs[r].call

\* C25: in every run, what is handed to the UI formatter contains all six
\* parts: aggregate rows, cards, driver notes, analytics bundle, model plan
\* and data-quality notes.
C25_SixPartsHandedToFormatter ==
    \A r \in RunIds : Returned(r) => HandsOverAggregatorParts(r) /\ HandsOverPlanAndNotes(r)

\* the four parts that are handed over
C25_FourPartsHandedToFormatter ==
    \A r \in RunIds : Returned(r) => HandsOverAggregatorParts(r)

\* ---- C26 ----------------------------------------------------------------
IsPrefix(s, t) == Len(s) <= Len(t) /\ \A i \in 1..Len(s) : s[i] = t[i]
StageFailed(r, stage) ==
    \/ stage = "ingestion" /\ runs[r].input.sheet # "ok"
    \/ stage = "feature_builder" /\ runs[r].dq.raised
    \/ stage = "forecast_engine" /\ runs[r].pf.raised
    \/ stage = "aggregator" /\ runs[r].ag.raised
FailedStages(r) ==
    SelectSeq(runs[r].trace, LAMBDA stage : StageFailed(r, stage))
\* the stages invoked so far are the first ones of the fixed order, each once,
\* the next one being the one the request stands at; every failed stage has
\* left one message and its default, and a returned request has a payload
RunInOrder(r) ==
    /\ IsPrefix(runs[r].trace, Stages)
    /\ pc[r] \in {"request", "rejected"} => runs[r].trace = <<>>
    /\ pc[r] \notin {"request", "rejected", "returned"} =>
           Len(runs[r].trace) = StageNumber(pc[r]) - 1
    /\ Len(runs[r].errors) = Len(FailedStages(r))
    /\ runs[r].ag.raised => runs[r].ag.forecasts_agg_data = <<>> /\ runs[r].ag.cards = ZeroCards
    /\ Returned(r) =>
           /\ runs[r].trace = Stages
           /\ runs[r].payload.errorMsg = runs[r].errors
           /\ runs[r].payload.forecastTable = runs[r].ag.forecasts_agg_data

\* C26: in every authenticated /run the stages are invoked exactly once each,
\* in the order ingestion, Feature Builder, Forecast Engine,
\* Aggregator/Analytics, UI formatter, a stage starting only after its
\* predecessor returned or failed; a failing stage is replaced by its default
\* and its message joins the error list without later stages being skipped;
\* and the request always ends by returning a UI payload.
C26_StagesInOrderToPayload ==
    /\ [](\A r \in RunIds : RunInOrder(r))
    /\ \A r \in RunIds :
           (pc[r] = "request" /\ runs[r].input.authorized) ~> Returned(r)

C26_Witness ==
    \E r \in RunIds :
        /\ Returned(r)
        /\ runs[r].trace = Stages
        /\ runs[r].errors = <<"sheets_fetch_stage exception", "aggregate_and_drivers exception">>
        /\ runs[r].payload.errorMsg = runs[r].errors
        /\ runs[r].payload.forecastResponse.drivers = <<NoDrivers>>

\* ---- C30 ----------------------------------------------------------------
\* the same request served alone, on a store nothing else has written to
SoloRun(in) ==
    LET id == IF in.sheet = "ok" THEN SaveKey("mem", <<>>, "applications_raw") ELSE NoKey
        a1 == IF in.sheet = "ok" THEN SaveArtifact("mem", <<>>, "applications_raw", in.apps) ELSE <<>>
        dq == dq_and_fe("mem", a1, id)
        a2 == IF dq.raised THEN a1 ELSE dq_and_fe_store("mem", a1, id, dq)
        run == [dq |-> dq]
        pf == plan_and_forecast("mem", a2, RunFeaturesId(run), RunTimeframe(in.timeframe),
                                RunFeaturesData(a2, run))
        a3 == plan_and_forecast_store("mem", a2, RunFeaturesId(run), pf)
        ag == aggregate_and_drivers("mem", a3, pf.forecasts_raw, RunFeaturesId(run),
                                    pf.forecasts_raw_data, RunFeaturesData(a3, run))
    IN  [forecast_rows |-> pf.forecasts_raw_data.rows,
         aggregate_rows |-> ag.forecasts_agg_data,
         cards |-> ag.cards,
         analytics |-> ag.analytics]
Outputs(r) ==
    [forecast_rows |-> runs[r].pf.forecasts_raw_data.rows,
     aggregate_rows |-> runs[r].ag.forecasts_agg_data,
     cards |-> runs[r].ag.cards,
     analytics |-> runs[r].ag.analytics]
StoreKeys == {artStore[i].key : i \in 1..Len(artStore)}

\* C30: no run observes what another run wrote: every save is under a handle
\* no other save was given, and for every interleaving of two requests the
\* forecast rows, aggregate rows, cards and analytics of a returned request
\* are those of the same request served alone.
C30_RunsIsolated ==
    /\ Cardinality(StoreKeys) = Len(artStore)
    /\ \A r \in RunIds : Returned(r) => Outputs(r) = SoloRun(runs[r].input)

C30_Witness ==
    /\ Returned(1) /\ Returned(2)
    /\ runs[1].input.apps.rows # <<>> /\ runs[2].input.apps.rows # <<>>
    /\ runs[1].input # runs[2].input
    /\ Outputs(1) # Outputs(2)
    /\ runs[1].pf.forecasts_raw_data.rows # <<>>
    /\ \E i, j \in 1..Len(artStore) :
          /\ i < j
          /\ artStore[i].key[2] = "features_m1" /\ artStore[j].key[2] = "applications_raw"

====
